---- MODULE Spec2Model ----
(***************************************************************************)
(* The match simulation engine of useGameEngine (src/dist/sw.js, lines     *)
(* 262-1878): the game state held in stateRef, the input refs, the entry   *)
(* points startGame / togglePause / returnToMenu, the input handlers and   *)
(* the per-frame update.                                                   *)
(*                                                                         *)
(* Numbers.  The code computes in IEEE-754 doubles.  Lengths and           *)
(* velocities are modelled in fixed point, Unit units per pixel, every     *)
(* product rounded to the nearest unit.  Timers are modelled by the number *)
(* of `-= 1/60` decrements left until the code's `<= 0` test passes; the   *)
(* count for each start value is the one double arithmetic gives, see      *)
(* SERVE_TICKS and the definitions after it.                               *)
(*                                                                         *)
(* Left out: particles, trails, screen shake, beeps, the theme, the        *)
(* reducedMotion flag, serveCountdownLastInt and the React mirror state    *)
(* (scores, gameStatus, effectTimers ...).  None of them is read by the    *)
(* simulation.                                                             *)
(***************************************************************************)
EXTENDS Integers, Sequences, FiniteSets, TLC

VARIABLES
    state,          \* stateRef.current (the GameState aggregate)
    keys,           \* keysRef.current: the set of keys held down
    mouseY,         \* mouseYRef.current
    useMouse,       \* useMouseRef.current
    touchActive,    \* touchActiveRef.current
    prevPlayerY,    \* prevPlayerYRef.current
    prevAiY,        \* prevAiYRef.current
    swPhase,        \* the service worker's life cycle: installing, activated
    cache,          \* the URLs with a response stored in CACHE_NAME
    online,         \* whether fetch() reaches the server
    puts,           \* the URLs of the cache.put calls not yet settled
    served,         \* the navigation URLs the worker answered from the network
    last            \* the last fetch event and what became of it

\* The service worker's variables.
swVars == <<swPhase, cache, online, puts, served, last>>

vars == <<state, keys, mouseY, useMouse, touchActive, prevPlayerY, prevAiY, swVars>>

----------------------------------------------------------------------------
(* Fixed point *)

\* Units per pixel (and per 1.0 of a dimensionless factor).
Unit == 10 * 10 * 10

Abs(n) == IF n < 0 THEN -n ELSE n

Sign(n) == IF n > 0 THEN 1 ELSE IF n < 0 THEN -1 ELSE 0

Min(a, b) == IF a < b THEN a ELSE b

Max(a, b) == IF a > b THEN a ELSE b

\* n / d rounded to the nearest integer, halves away from zero (d > 0).
Rnd(n, d) == IF n >= 0 THEN (2 * n + d) \div (2 * d) ELSE -((2 * (-n) + d) \div (2 * d))

\* a * b for two fixed-point numbers.
Mul(a, b) == Rnd(a * b, Unit)

\* Math.cos / Math.sin of an angle in milli-radians, |a| <= 1.6 rad, by the
\* Taylor series to x^8 / x^9 (error below one unit on that range).
Cos(a) ==
    LET x2 == Mul(a, a)
        x4 == Mul(x2, x2)
        x6 == Mul(x4, x2)
        x8 == Mul(x4, x4)
    IN  Unit - Rnd(x2, 2) + Rnd(x4, 24) - Rnd(x6, 720) + Rnd(x8, 40320)

Sin(a) ==
    LET x2 == Mul(a, a)
        x3 == Mul(x2, a)
        x5 == Mul(x3, x2)
        x7 == Mul(x5, x2)
        x9 == Mul(x7, x2)
    IN  a - Rnd(x3, 6) + Rnd(x5, 120) - Rnd(x7, 5040) + Rnd(x9, 362880)

----------------------------------------------------------------------------
(* Program constants (pixels; multiplied by Unit where they are used) *)

CANVAS_WIDTH == 800
CANVAS_HEIGHT == 500
PADDLE_WIDTH == 14
PADDLE_HEIGHT == 90
BALL_RADIUS == 8
PADDLE_MARGIN == 30
BALL_INITIAL_SPEED == 5

W == CANVAS_WIDTH * Unit
H == CANVAS_HEIGHT * Unit
R == BALL_RADIUS * Unit

PLAYER_X == PADDLE_MARGIN * Unit
AI_X == (CANVAS_WIDTH - PADDLE_MARGIN - PADDLE_WIDTH) * Unit
PW == PADDLE_WIDTH * Unit
BASE_HEIGHT == PADDLE_HEIGHT * Unit
CENTRE_Y == (CANVAS_HEIGHT * Unit) \div 2 - (PADDLE_HEIGHT * Unit) \div 2

\* Math.min(PADDLE_HEIGHT * 1.6, CANVAS_HEIGHT - 20) and
\* Math.max(PADDLE_HEIGHT * 0.6, 22)
MIN_HEIGHT_FLOOR == 22
MAX_HEIGHT_INSET == 20
ENLARGED_TO_COURT == (CANVAS_HEIGHT - MAX_HEIGHT_INSET) * Unit
ENLARGED_HEIGHT == Min((PADDLE_HEIGHT * Unit * 16) \div 10, (CANVAS_HEIGHT - MAX_HEIGHT_INSET) * Unit)
SHRUNK_HEIGHT == Max((PADDLE_HEIGHT * Unit * 6) \div 10, MIN_HEIGHT_FLOOR * Unit)

\* Ball speed factors of the slow and fast power-ups (0.6 and 1.6).
SLOW_FACTOR == (6 * Unit) \div 10
FAST_FACTOR == (16 * Unit) \div 10

\* The human paddle speed (7 px per frame), the mouse easing (0.15), the
\* adaptive-AI gain (0.45) and its clamp (0.6 .. 2.0 of the base speed).
HUMAN_SPEED == 7 * Unit
MOUSE_EASE == (15 * Unit) \div 100
ADAPT_GAIN == (45 * Unit) \div 100
ADAPT_MIN == (6 * Unit) \div 10
ADAPT_MAX == 2 * Unit

\* Speed escalation: x1.05 capped at 14 x ballSpeedMul on every hit, x1.2
\* capped at 16 x ballSpeedMul on a power hit (paddle |dy| > 4).
HIT_GAIN == (105 * Unit) \div 100
HIT_CAP == 14
POWER_GAIN == (12 * Unit) \div 10
POWER_CAP == 16
POWER_DY == 4
\* Math.PI / 3 in milli-radians.
MAX_ANGLE == 1047

\* Scoring margin beyond the court edge, power-up radius, power-up cap.
SCORE_MARGIN == 20
POWERUP_RADIUS == 12
maxPowerUps == 3

Difficulty == {"easy", "medium", "hard", "impossible"}

DIFFICULTY_SETTINGS ==
    [easy       |-> [aiSpeed |-> 3 * Unit, aiReaction |-> 30, aiError |-> 60 * Unit, ballSpeedMul |-> 850],
     medium     |-> [aiSpeed |-> (45 * Unit) \div 10, aiReaction |-> 60, aiError |-> 30 * Unit, ballSpeedMul |-> 1000],
     hard       |-> [aiSpeed |-> 6 * Unit, aiReaction |-> 100, aiError |-> 10 * Unit, ballSpeedMul |-> 1150],
     impossible |-> [aiSpeed |-> 8 * Unit, aiReaction |-> 180, aiError |-> 2 * Unit, ballSpeedMul |-> 1300]]

GameMode == {"single", "multi"}

PowerUpType == {"enlarge", "shrink", "slow", "fast"}

----------------------------------------------------------------------------
(* Timers, in update ticks (dt = 1/60 s) *)

TicksPerSecond == 60

\* serveCountdown = 3: 3 - 180 * (1/60) is 5.6e-15 in doubles, so the
\* `serveCountdown <= 0` test first passes on the 181st decrement.
SERVE_TICKS == 3 * TicksPerSecond + 1
\* powerHitTimer = 0.5: first <= 0 on the 31st decrement.
POWER_HIT_TICKS == TicksPerSecond \div 2 + 1
\* Effect timers = 6: first <= 0 on the 361st decrement.
EFFECT_TICKS == 6 * TicksPerSecond + 1
\* ttl = 10: 10 - 600 * (1/60) is -7.5e-14, so `ttl > 0` fails on the 600th.
TTL_TICKS == 10 * TicksPerSecond
\* powerUpSpawnTimer = 5 (startGame) and = 4 (prepareServe).
FIRST_SPAWN_TICKS == 5 * TicksPerSecond + 1
SERVE_SPAWN_TICKS == 4 * TicksPerSecond + 1

\* nextSpawnInterval(): a uniform draw from 12-20 s, 8-14 s or 4-8 s; the
\* two ends of each range.
SpawnIntervals(rate) ==
    CASE rate = "low"  -> {12 * TicksPerSecond + 1, 20 * TicksPerSecond}
      [] rate = "high" -> {4 * TicksPerSecond + 1, 8 * TicksPerSecond}
      [] OTHER         -> {8 * TicksPerSecond + 1, 14 * TicksPerSecond}

\* A reading of Date.now(): some positive time stamp.  The code compares time
\* stamps only with 0 (never set) and, for the combo, with each other; the
\* second comparison is an input of the tick (see checkPaddleCollision).
DateNow == 1

----------------------------------------------------------------------------
(* The game state *)

BaseSpeed(diff) == Mul(BALL_INITIAL_SPEED * Unit, DIFFICULTY_SETTINGS[diff].ballSpeedMul)

\* The initial value of stateRef.
InitialState ==
    [ball |-> [x |-> W \div 2, y |-> H \div 2, vx |-> BALL_INITIAL_SPEED * Unit, vy |-> 0,
               speed |-> BALL_INITIAL_SPEED * Unit],
     player |-> [y |-> CENTRE_Y, height |-> BASE_HEIGHT, speed |-> HUMAN_SPEED, score |-> 0, dy |-> 0],
     ai |-> [y |-> CENTRE_Y, height |-> BASE_HEIGHT, speed |-> (45 * Unit) \div 10, score |-> 0, dy |-> 0],
     gameStatus |-> "menu",
     winner |-> "",
     rallyCount |-> 0,
     maxRally |-> 0,
     combo |-> 0,
     lastHitTime |-> 0,
     winScore |-> 7,
     difficulty |-> "medium",
     isPowerHit |-> FALSE,
     powerHitTimer |-> 0,
     mode |-> "single",
     powerUps |-> <<>>,
     powerUpSpawnTimer |-> FIRST_SPAWN_TICKS,
     lastHitBy |-> "player",
     playerPowerUpTimer |-> 0,
     aiPowerUpTimer |-> 0,
     ballSlowTimer |-> 0,
     ballSlowFactor |-> Unit,
     ballFastTimer |-> 0,
     ballFastFactor |-> Unit,
     playerShrinkTimer |-> 0,
     aiShrinkTimer |-> 0,
     serveCountdown |-> 0,
     serveDirection |-> 1,
     adaptiveAI |-> FALSE,
     powerUpsEnabled |-> TRUE,
     powerUpSpawnRate |-> "normal",
     matchStartMs |-> 0,
     matchEndMs |-> 0,
     powerUpsCollected |-> [player |-> 0, ai |-> 0]]

----------------------------------------------------------------------------
(* The service worker: install, activate and the fetch handler *)

\* cache.addAll([...]) of the install handler.
Precache ==
    {"./", "./index.html", "./manifest.webmanifest", "./icon-192.png", "./icon-512.png"}

\* caches.match('./index.html'), the cached shell.
Shell == "./index.html"

\* The requests the page issues: navigations and assets, by URL.
NavUrls == {"./", "./index.html", "./?source=pwa"}
AssetUrls == {"./icon-192.png", "./assets/index.js"}

Requests ==
    [method : {"GET", "POST"}, sameOrigin : BOOLEAN, mode : {"navigate"}, url : NavUrls]
        \cup [method : {"GET", "POST"}, sameOrigin : BOOLEAN, mode : {"no-cors"}, url : AssetUrls]

\* The two early returns of the fetch handler: the event is left to the
\* browser.
intercepts(req) == req.method = "GET" /\ req.sameOrigin

\* What the fetch handler answers req with, the cache holding stored and
\* fetch() succeeding exactly when up.
\*   passthrough   no respondWith
\*   network       the response of fetch(req), a copy of it handed to cache.put
\*   stored        caches.match(req)
\*   shell         caches.match('./index.html')
\*   failed        respondWith resolves to undefined: a network error
respond(req, stored, up) ==
    IF ~intercepts(req) THEN "passthrough"
    ELSE IF req.mode = "navigate"
    THEN IF up THEN "network"
         ELSE IF req.url \in stored THEN "stored"
         ELSE IF Shell \in stored THEN "shell"
         ELSE "failed"
    ELSE IF req.url \in stored THEN "stored"
         ELSE IF up THEN "network"
         ELSE "failed"

\* No fetch event yet.
NoEvent ==
    [req |-> [method |-> "GET", sameOrigin |-> TRUE, mode |-> "navigate", url |-> "./"],
     offline |-> FALSE, repeat |-> FALSE, outcome |-> "none"]

Init ==
    /\ state = InitialState
    /\ keys = {}
    /\ mouseY = H \div 2
    /\ useMouse = FALSE
    /\ touchActive = FALSE
    /\ prevPlayerY = CENTRE_Y
    /\ prevAiY = CENTRE_Y
    /\ swPhase = "installing"
    /\ cache = {}
    /\ online = TRUE
    /\ puts = {}
    /\ served = {}
    /\ last = NoEvent

\* The launch with maxRally cleared as well.
resetBallClearsMax(s, direction, vy) ==
    [s EXCEPT !.ball = [x |-> W \div 2, y |-> H \div 2,
                        vx |-> BaseSpeed(s.difficulty) * direction, vy |-> vy,
                        speed |-> BaseSpeed(s.difficulty)],
              !.rallyCount = 0,
              !.maxRally = 0,
              !.combo = 0,
              !.isPowerHit = FALSE,
              !.powerHitTimer = 0]

\* resetBall(direction): the launch at the end of the serve countdown.  vy is
\* (Math.random() - 0.5) * 3, an input.
resetBall(s, direction, vy) ==
    [s EXCEPT !.ball = [x |-> W \div 2, y |-> H \div 2,
                        vx |-> BaseSpeed(s.difficulty) * direction, vy |-> vy,
                        speed |-> BaseSpeed(s.difficulty)],
              !.rallyCount = 0,
              !.combo = 0,
              !.isPowerHit = FALSE,
              !.powerHitTimer = 0]

\* prepareServe without the clearing of the power-ups and of their effects.
prepareServeKeepsEffects(s, direction) ==
    [s EXCEPT !.powerUpSpawnTimer = SERVE_SPAWN_TICKS,
              !.rallyCount = 0,
              !.combo = 0,
              !.serveDirection = direction,
              !.serveCountdown = SERVE_TICKS,
              !.ball = [x |-> W \div 2, y |-> H \div 2, vx |-> 0, vy |-> 0,
                        speed |-> BaseSpeed(s.difficulty)]]

\* prepareServe without the reset of the rally counter.
prepareServeKeepsRally(s, direction) ==
    [s EXCEPT !.powerUps = <<>>,
              !.powerUpSpawnTimer = SERVE_SPAWN_TICKS,
              !.player.height = BASE_HEIGHT,
              !.ai.height = BASE_HEIGHT,
              !.playerPowerUpTimer = 0,
              !.aiPowerUpTimer = 0,
              !.playerShrinkTimer = 0,
              !.aiShrinkTimer = 0,
              !.ballSlowTimer = 0,
              !.ballSlowFactor = Unit,
              !.ballFastTimer = 0,
              !.ballFastFactor = Unit,
              !.combo = 0,
              !.serveDirection = direction,
              !.serveCountdown = SERVE_TICKS,
              !.ball = [x |-> W \div 2, y |-> H \div 2, vx |-> 0, vy |-> 0,
                        speed |-> BaseSpeed(s.difficulty)]]

\* prepareServe(direction)
prepareServe(s, direction) ==
    [s EXCEPT !.powerUps = <<>>,
              !.powerUpSpawnTimer = SERVE_SPAWN_TICKS,
              !.player.height = BASE_HEIGHT,
              !.ai.height = BASE_HEIGHT,
              !.playerPowerUpTimer = 0,
              !.aiPowerUpTimer = 0,
              !.playerShrinkTimer = 0,
              !.aiShrinkTimer = 0,
              !.ballSlowTimer = 0,
              !.ballSlowFactor = Unit,
              !.ballFastTimer = 0,
              !.ballFastFactor = Unit,
              !.rallyCount = 0,
              !.combo = 0,
              !.serveDirection = direction,
              !.serveCountdown = SERVE_TICKS,
              !.ball = [x |-> W \div 2, y |-> H \div 2, vx |-> 0, vy |-> 0,
                        speed |-> BaseSpeed(s.difficulty)]]

\* startGame without the reset of maxRally and of the paddles.
startStateKeeping(s, diff, winAt, gameMode) ==
    [s EXCEPT !.difficulty = diff,
              !.winScore = winAt,
              !.mode = gameMode,
              !.player.score = 0,
              !.ai.score = 0,
              !.gameStatus = "playing",
              !.winner = "",
              !.matchStartMs = DateNow,
              !.matchEndMs = 0,
              !.powerUpsCollected = [player |-> 0, ai |-> 0]]

\* The state startGame(diff, winAt, gameMode) leaves, before its call of
\* prepareServe.
startState(s, diff, winAt, gameMode) ==
    [s EXCEPT !.difficulty = diff,
              !.winScore = winAt,
              !.mode = gameMode,
              !.player = [y |-> CENTRE_Y, height |-> BASE_HEIGHT, speed |-> HUMAN_SPEED,
                          score |-> 0, dy |-> 0],
              !.ai = [y |-> CENTRE_Y, height |-> BASE_HEIGHT,
                      speed |-> IF gameMode = "multi" THEN HUMAN_SPEED
                                ELSE DIFFICULTY_SETTINGS[diff].aiSpeed,
                      score |-> 0, dy |-> 0],
              !.gameStatus = "playing",
              !.winner = "",
              !.rallyCount = 0,
              !.maxRally = 0,
              !.combo = 0,
              !.lastHitTime = 0,
              !.isPowerHit = FALSE,
              !.powerHitTimer = 0,
              !.powerUps = <<>>,
              !.powerUpSpawnTimer = FIRST_SPAWN_TICKS,
              !.lastHitBy = "player",
              !.playerPowerUpTimer = 0,
              !.aiPowerUpTimer = 0,
              !.ballSlowTimer = 0,
              !.ballSlowFactor = Unit,
              !.ballFastTimer = 0,
              !.ballFastFactor = Unit,
              !.playerShrinkTimer = 0,
              !.aiShrinkTimer = 0,
              !.serveCountdown = 0,
              !.serveDirection = 1,
              !.matchStartMs = DateNow,
              !.matchEndMs = 0,
              !.powerUpsCollected = [player |-> 0, ai |-> 0]]

\* startGame(diff, winAt, gameMode); direction is Math.random() > 0.5 ? 1 : -1.
startGame(diff, winAt, gameMode, direction) ==
    /\ state' = prepareServe(startState(state, diff, winAt, gameMode), direction)
    /\ prevPlayerY' = CENTRE_Y
    /\ prevAiY' = CENTRE_Y
    /\ touchActive' = FALSE
    /\ UNCHANGED <<keys, mouseY, useMouse, swVars>>

----------------------------------------------------------------------------
(* update(): the stages of one frame, in the order of the code *)

\* Math.max(0, Math.min(CANVAS_HEIGHT - height, y))
clampPaddle(y, height) == Max(0, Min(H - height, y))

\* Adaptive AI speed (single player only).
adaptStage(s) ==
    IF s.mode = "single"
    THEN LET base == DIFFICULTY_SETTINGS[s.difficulty].aiSpeed
             diff == s.player.score - s.ai.score
             target == base + diff * ADAPT_GAIN
             lo == Mul(base, ADAPT_MIN)
             hi == Mul(base, ADAPT_MAX)
         IN  [s EXCEPT !.ai.speed = IF s.adaptiveAI
                                    THEN (IF target < lo THEN lo ELSE IF target > hi THEN hi ELSE target)
                                    ELSE base]
    ELSE s

\* The bounce prediction with one reflection at each wall and no loop.
bouncePredictionOnce(predictedY) ==
    LET p1 == IF predictedY < 0 THEN -predictedY ELSE predictedY
    IN  IF p1 > H THEN 2 * H - p1 ELSE p1

\* The bounce prediction loop: reflect predictedY into [0, CANVAS_HEIGHT].
RECURSIVE bouncePrediction(_)
bouncePrediction(predictedY) ==
    IF predictedY < 0 \/ predictedY > H
    THEN LET p1 == IF predictedY < 0 THEN -predictedY ELSE predictedY
             p2 == IF p1 > H THEN 2 * H - p1 ELSE p1
         IN  bouncePrediction(p2)
    ELSE predictedY

\* The y the AI aims its centre at; aiError is (Math.random() - 0.5) *
\* settings.aiError, an input.  timeToReach is kept to 1/100 of a frame.
aiTarget(s, aiError) ==
    IF s.ball.vx > 0
    THEN LET timeToReach == Rnd((AI_X - s.ball.x) * 100, s.ball.vx)
             predictedY == s.ball.y + Rnd(s.ball.vy * timeToReach, 100)
         IN  bouncePrediction(predictedY) + aiError
    ELSE s.ball.y + aiError

\* The AI paddle's step: sign(aiDiff) * min(|aiDiff| * aiReaction + 0.5, ai.speed).
aiStep(s, aiError) ==
    LET aiCenter == s.ai.y + s.ai.height \div 2
        aiDiff == aiTarget(s, aiError) - aiCenter
    IN  Sign(aiDiff) * Min(Mul(Abs(aiDiff), DIFFICULTY_SETTINGS[s.difficulty].aiReaction) + Unit \div 2,
                           s.ai.speed)

\* A keyboard step: up subtracts the paddle speed, down adds it, both apply.
keyStep(up, down, speed) == (IF up THEN -speed ELSE 0) + (IF down THEN speed ELSE 0)

\* Player and opponent movement based on mode; the result is the state with
\* both paddles moved and clamped.
moveStage(s, ks, my, um, ta, aiError) ==
    IF s.mode = "multi"
    THEN IF ta
         THEN [s EXCEPT !.player.y = clampPaddle(s.player.y, s.player.height),
                        !.ai.y = clampPaddle(s.ai.y, s.ai.height)]
         ELSE [s EXCEPT !.player.y = clampPaddle(s.player.y + keyStep("w" \in ks, "s" \in ks, s.player.speed),
                                                 s.player.height),
                        !.ai.y = clampPaddle(s.ai.y + keyStep("ArrowUp" \in ks, "ArrowDown" \in ks, s.ai.speed),
                                             s.ai.height)]
    ELSE LET py == IF um
                   THEN s.player.y + Mul((my - s.player.height \div 2) - s.player.y, MOUSE_EASE)
                   ELSE s.player.y + keyStep("ArrowUp" \in ks \/ "w" \in ks,
                                             "ArrowDown" \in ks \/ "s" \in ks, s.player.speed)
         IN  [s EXCEPT !.player.y = clampPaddle(py, s.player.height),
                       !.ai.y = clampPaddle(s.ai.y + aiStep(s, aiError), s.ai.height)]

\* The frame without the computation of dy from the paddles' displacement.
dyStageStale(s, prevP, prevA) == s

\* Paddle dy from the actual movement since the previous frame.
dyStage(s, prevP, prevA) ==
    [s EXCEPT !.player.dy = s.player.y - prevP,
              !.ai.dy = s.ai.y - prevA]

\* Power hit timer.
powerHitStage(s) ==
    IF s.powerHitTimer > 0
    THEN IF s.powerHitTimer - 1 <= 0
         THEN [s EXCEPT !.isPowerHit = FALSE, !.powerHitTimer = 0]
         ELSE [s EXCEPT !.powerHitTimer = s.powerHitTimer - 1]
    ELSE s

\* The spawn without the tests of the setting and of the serve countdown.
spawnStageAlways(s, type, px, py, interval) ==
    IF s.powerUpSpawnTimer - 1 <= 0
    THEN LET kept == IF Len(s.powerUps) >= maxPowerUps THEN Tail(s.powerUps) ELSE s.powerUps
         IN  [s EXCEPT !.powerUps = Append(kept, [x |-> px, y |-> py, type |-> type, ttl |-> TTL_TICKS]),
                       !.powerUpSpawnTimer = interval]
    ELSE [s EXCEPT !.powerUpSpawnTimer = s.powerUpSpawnTimer - 1]

\* The spawn with the new power-up put before the standing ones.
spawnStagePrepends(s, type, px, py, interval) ==
    IF s.powerUpsEnabled /\ s.serveCountdown <= 0
    THEN IF s.powerUpSpawnTimer - 1 <= 0
         THEN LET kept == IF Len(s.powerUps) >= maxPowerUps THEN Tail(s.powerUps) ELSE s.powerUps
              IN  [s EXCEPT !.powerUps = <<[x |-> px, y |-> py, type |-> type, ttl |-> TTL_TICKS]>> \o kept,
                            !.powerUpSpawnTimer = interval]
         ELSE [s EXCEPT !.powerUpSpawnTimer = s.powerUpSpawnTimer - 1]
    ELSE s

\* Spawn: only with power-ups enabled and outside the serve countdown.  The
\* type, the place and the next interval are random draws, inputs here.
spawnStage(s, type, px, py, interval) ==
    IF s.powerUpsEnabled /\ s.serveCountdown <= 0
    THEN IF s.powerUpSpawnTimer - 1 <= 0
         THEN LET kept == IF Len(s.powerUps) >= maxPowerUps THEN Tail(s.powerUps) ELSE s.powerUps
              IN  [s EXCEPT !.powerUps = Append(kept, [x |-> px, y |-> py, type |-> type, ttl |-> TTL_TICKS]),
                            !.powerUpSpawnTimer = interval]
         ELSE [s EXCEPT !.powerUpSpawnTimer = s.powerUpSpawnTimer - 1]
    ELSE s

\* Decrease TTL for existing power-ups and remove expired ones.
ttlStage(s) ==
    LET aged == [i \in 1..Len(s.powerUps) |-> [s.powerUps[i] EXCEPT !.ttl = @ - 1]]
    IN  [s EXCEPT !.powerUps = SelectSeq(aged, LAMBDA pu : pu.ttl > 0)]

\* The enlarge timers running out without the paddles' return to
\* PADDLE_HEIGHT.
enlargeStageKeepsHeight(s) ==
    LET s1 == IF s.playerPowerUpTimer > 0
              THEN IF s.playerPowerUpTimer - 1 <= 0
                   THEN [s EXCEPT !.playerPowerUpTimer = 0]
                   ELSE [s EXCEPT !.playerPowerUpTimer = @ - 1]
              ELSE s
    IN  IF s1.aiPowerUpTimer > 0
        THEN IF s1.aiPowerUpTimer - 1 <= 0
             THEN [s1 EXCEPT !.aiPowerUpTimer = 0]
             ELSE [s1 EXCEPT !.aiPowerUpTimer = @ - 1]
        ELSE s1

\* Enlarge and shrink timers: on expiry the paddle returns to PADDLE_HEIGHT.
enlargeStage(s) ==
    LET s1 == IF s.playerPowerUpTimer > 0
              THEN IF s.playerPowerUpTimer - 1 <= 0
                   THEN [s EXCEPT !.player.height = BASE_HEIGHT, !.playerPowerUpTimer = 0]
                   ELSE [s EXCEPT !.playerPowerUpTimer = @ - 1]
              ELSE s
    IN  IF s1.aiPowerUpTimer > 0
        THEN IF s1.aiPowerUpTimer - 1 <= 0
             THEN [s1 EXCEPT !.ai.height = BASE_HEIGHT, !.aiPowerUpTimer = 0]
             ELSE [s1 EXCEPT !.aiPowerUpTimer = @ - 1]
        ELSE s1

shrinkStage(s) ==
    LET s1 == IF s.playerShrinkTimer > 0
              THEN IF s.playerShrinkTimer - 1 <= 0
                   THEN [s EXCEPT !.player.height = BASE_HEIGHT, !.playerShrinkTimer = 0]
                   ELSE [s EXCEPT !.playerShrinkTimer = @ - 1]
              ELSE s
    IN  IF s1.aiShrinkTimer > 0
        THEN IF s1.aiShrinkTimer - 1 <= 0
             THEN [s1 EXCEPT !.ai.height = BASE_HEIGHT, !.aiShrinkTimer = 0]
             ELSE [s1 EXCEPT !.aiShrinkTimer = @ - 1]
        ELSE s1

\* v / factor
Unscale(v, factor) == Rnd(v * Unit, factor)

\* The slow timer's expiry with the factor reset and the velocity kept.
slowStageKeepsVelocity(s) ==
    IF s.ballSlowTimer > 0
    THEN IF s.ballSlowTimer - 1 <= 0
         THEN [s EXCEPT !.ballSlowFactor = Unit, !.ballSlowTimer = 0]
         ELSE [s EXCEPT !.ballSlowTimer = @ - 1]
    ELSE s

\* Slow and fast ball timers: on expiry the factor is divided out of the
\* velocity and reset to 1.
slowStage(s) ==
    IF s.ballSlowTimer > 0
    THEN IF s.ballSlowTimer - 1 <= 0
         THEN IF s.ballSlowFactor # Unit
              THEN [s EXCEPT !.ball.vx = Unscale(@, s.ballSlowFactor),
                             !.ball.vy = Unscale(@, s.ballSlowFactor),
                             !.ballSlowFactor = Unit,
                             !.ballSlowTimer = 0]
              ELSE [s EXCEPT !.ballSlowTimer = 0]
         ELSE [s EXCEPT !.ballSlowTimer = @ - 1]
    ELSE s

fastStage(s) ==
    IF s.ballFastTimer > 0
    THEN IF s.ballFastTimer - 1 <= 0
         THEN IF s.ballFastFactor # Unit
              THEN [s EXCEPT !.ball.vx = Unscale(@, s.ballFastFactor),
                             !.ball.vy = Unscale(@, s.ballFastFactor),
                             !.ballFastFactor = Unit,
                             !.ballFastTimer = 0]
              ELSE [s EXCEPT !.ballFastTimer = 0]
         ELSE [s EXCEPT !.ballFastTimer = @ - 1]
    ELSE s

\* The serve countdown with the ball drifting toward the receiver.
serveStageDrifting(s, vy) ==
    IF s.serveCountdown - 1 <= 0
    THEN resetBall([s EXCEPT !.serveCountdown = 0], s.serveDirection, vy)
    ELSE [s EXCEPT !.serveCountdown = @ - 1,
                   !.ball.x = @ + BaseSpeed(s.difficulty) * s.serveDirection]

\* Serve countdown: the ball stays put; at zero resetBall launches it.
serveStage(s, vy) ==
    IF s.serveCountdown - 1 <= 0
    THEN resetBall([s EXCEPT !.serveCountdown = 0], s.serveDirection, vy)
    ELSE [s EXCEPT !.serveCountdown = @ - 1]

\* Ball movement and top/bottom wall collision.
wallStage(s) ==
    LET x1 == s.ball.x + s.ball.vx
        y1 == s.ball.y + s.ball.vy
        top == y1 - R <= 0
        y2 == IF top THEN R ELSE y1
        vy2 == IF top THEN Abs(s.ball.vy) ELSE s.ball.vy
        bottom == y2 + R >= H
        y3 == IF bottom THEN H - R ELSE y2
        vy3 == IF bottom THEN -Abs(vy2) ELSE vy2
    IN  [s EXCEPT !.ball.x = x1, !.ball.y = y3, !.ball.vy = vy3]

Paddle(s, who) == IF who = "player" THEN s.player ELSE s.ai

PaddleX(who) == IF who = "player" THEN PLAYER_X ELSE AI_X

\* The overlap test taken with the ball's centre instead of its extent.
overlapsCentre(s, who) ==
    /\ s.ball.x < PaddleX(who) + PW
    /\ s.ball.x > PaddleX(who)
    /\ s.ball.y + R > Paddle(s, who).y
    /\ s.ball.y - R < Paddle(s, who).y + Paddle(s, who).height

\* The overlap test of checkPaddleCollision.
overlaps(s, who) ==
    /\ s.ball.x - R < PaddleX(who) + PW
    /\ s.ball.x + R > PaddleX(who)
    /\ s.ball.y + R > Paddle(s, who).y
    /\ s.ball.y - R < Paddle(s, who).y + Paddle(s, who).height

\* hitPos = (ball.y - (paddle.y + paddle.height / 2)) / (paddle.height / 2)
hitPos(s, who) ==
    Rnd((s.ball.y - (Paddle(s, who).y + Paddle(s, who).height \div 2)) * Unit,
        Paddle(s, who).height \div 2)

\* The speed increase without its cap.
hitSpeedUncapped(speed, diff) == Mul(speed, HIT_GAIN)

\* Speed increase: Math.min(speed * 1.05, 14 * ballSpeedMul)
hitSpeed(speed, diff) == Min(Mul(speed, HIT_GAIN), HIT_CAP * DIFFICULTY_SETTINGS[diff].ballSpeedMul)

\* Power hit: Math.min(speed * 1.2, 16 * ballSpeedMul)
powerSpeed(speed, diff) == Min(Mul(speed, POWER_GAIN), POWER_CAP * DIFFICULTY_SETTINGS[diff].ballSpeedMul)

\* Check for power hit (fast paddle movement): Math.abs(paddle.dy) > 4
isPower(paddle) == Abs(paddle.dy) > POWER_DY * Unit

\* The collision with the ball sent on toward the wall behind the paddle.
checkPaddleCollisionInward(s, who, recent) ==
    IF overlaps(s, who)
    THEN LET paddle == Paddle(s, who)
             isPlayer == who = "player"
             angle == Mul(hitPos(s, who), MAX_ANGLE)
             speed == hitSpeed(s.ball.speed, s.difficulty)
             power == isPower(paddle)
             velMul == Mul(s.ballSlowFactor, s.ballFastFactor)
             rally == s.rallyCount + 1
         IN  [s EXCEPT !.ball.speed = IF power THEN powerSpeed(speed, s.difficulty) ELSE speed,
                       !.isPowerHit = IF power THEN TRUE ELSE @,
                       !.powerHitTimer = IF power THEN POWER_HIT_TICKS ELSE @,
                       !.ball.vx = Mul(Mul(Cos(angle), speed), velMul) * (IF isPlayer THEN -1 ELSE 1),
                       !.ball.vy = Mul(Mul(Sin(angle), speed), velMul),
                       !.ball.x = IF isPlayer THEN PLAYER_X + PW + R ELSE AI_X - R,
                       !.rallyCount = rally,
                       !.maxRally = IF rally > @ THEN rally ELSE @,
                       !.combo = IF isPlayer
                                 THEN (IF recent /\ s.lastHitTime # 0 THEN @ + 1 ELSE 1)
                                 ELSE @,
                       !.lastHitTime = DateNow,
                       !.lastHitBy = who]
    ELSE s

\* checkPaddleCollision(paddle, isPlayer).  recent is the outcome of
\* `now - state.lastHitTime < 2000`, an input unless lastHitTime is 0 (now is
\* a time stamp of this century).
checkPaddleCollision(s, who, recent) ==
    IF overlaps(s, who)
    THEN LET paddle == Paddle(s, who)
             isPlayer == who = "player"
             angle == Mul(hitPos(s, who), MAX_ANGLE)
             speed == hitSpeed(s.ball.speed, s.difficulty)
             power == isPower(paddle)
             velMul == Mul(s.ballSlowFactor, s.ballFastFactor)
             rally == s.rallyCount + 1
         IN  [s EXCEPT !.ball.speed = IF power THEN powerSpeed(speed, s.difficulty) ELSE speed,
                       !.isPowerHit = IF power THEN TRUE ELSE @,
                       !.powerHitTimer = IF power THEN POWER_HIT_TICKS ELSE @,
                       !.ball.vx = Mul(Mul(Cos(angle), speed), velMul) * (IF isPlayer THEN 1 ELSE -1),
                       !.ball.vy = Mul(Mul(Sin(angle), speed), velMul),
                       !.ball.x = IF isPlayer THEN PLAYER_X + PW + R ELSE AI_X - R,
                       !.rallyCount = rally,
                       !.maxRally = IF rally > @ THEN rally ELSE @,
                       !.combo = IF isPlayer
                                 THEN (IF recent /\ s.lastHitTime # 0 THEN @ + 1 ELSE 1)
                                 ELSE @,
                       !.lastHitTime = DateNow,
                       !.lastHitBy = who]
    ELSE s

\* Check paddle collisions: only the paddle the ball moves toward.
collisionStage(s, recent) ==
    IF s.ball.vx < 0
    THEN checkPaddleCollision(s, "player", recent)
    ELSE checkPaddleCollision(s, "ai", recent)

\* The left test with the serve sent toward the side that scored.
scoreLeftServesRight(s) ==
    IF s.ball.x < -(SCORE_MARGIN * Unit)
    THEN LET s1 == [s EXCEPT !.ai.score = @ + 1]
         IN  IF s1.ai.score >= s1.winScore
             THEN [s1 EXCEPT !.gameStatus = "gameOver",
                             !.winner = IF s1.mode = "multi" THEN "P2" ELSE "AI",
                             !.matchEndMs = DateNow]
             ELSE prepareServe(s1, 1)
    ELSE s

\* The left test without the end of the match.
scoreLeftPlaysOn(s) ==
    IF s.ball.x < -(SCORE_MARGIN * Unit)
    THEN prepareServe([s EXCEPT !.ai.score = @ + 1], -1)
    ELSE s

\* Scoring: the two tests, one after the other.
scoreLeft(s) ==
    IF s.ball.x < -(SCORE_MARGIN * Unit)
    THEN LET s1 == [s EXCEPT !.ai.score = @ + 1]
         IN  IF s1.ai.score >= s1.winScore
             THEN [s1 EXCEPT !.gameStatus = "gameOver",
                             !.winner = IF s1.mode = "multi" THEN "P2" ELSE "AI",
                             !.matchEndMs = DateNow]
             ELSE prepareServe(s1, -1)
    ELSE s

\* The right test with the match awarded to the right side.
scoreRightNamesRight(s) ==
    IF s.ball.x > W + SCORE_MARGIN * Unit
    THEN LET s1 == [s EXCEPT !.player.score = @ + 1]
         IN  IF s1.player.score >= s1.winScore
             THEN [s1 EXCEPT !.gameStatus = "gameOver",
                             !.winner = IF s1.mode = "multi" THEN "P2" ELSE "AI",
                             !.matchEndMs = DateNow]
             ELSE prepareServe(s1, 1)
    ELSE s

\* The right test with the point given to the right side.
scoreRightMisplaced(s) ==
    IF s.ball.x > W + SCORE_MARGIN * Unit
    THEN LET s1 == [s EXCEPT !.ai.score = @ + 1]
         IN  IF s1.ai.score >= s1.winScore
             THEN [s1 EXCEPT !.gameStatus = "gameOver",
                             !.winner = IF s1.mode = "multi" THEN "P2" ELSE "AI",
                             !.matchEndMs = DateNow]
             ELSE prepareServe(s1, 1)
    ELSE s

\* The right test with the match ended only above the winning score.
scoreRightLate(s) ==
    IF s.ball.x > W + SCORE_MARGIN * Unit
    THEN LET s1 == [s EXCEPT !.player.score = @ + 1]
         IN  IF s1.player.score > s1.winScore
             THEN [s1 EXCEPT !.gameStatus = "gameOver",
                             !.winner = IF s1.mode = "multi" THEN "P1" ELSE "Player",
                             !.matchEndMs = DateNow]
             ELSE prepareServe(s1, 1)
    ELSE s

scoreRight(s) ==
    IF s.ball.x > W + SCORE_MARGIN * Unit
    THEN LET s1 == [s EXCEPT !.player.score = @ + 1]
         IN  IF s1.player.score >= s1.winScore
             THEN [s1 EXCEPT !.gameStatus = "gameOver",
                             !.winner = IF s1.mode = "multi" THEN "P1" ELSE "Player",
                             !.matchEndMs = DateNow]
             ELSE prepareServe(s1, 1)
    ELSE s

scoreStage(s) == scoreRight(scoreLeft(s))

\* distSq <= rad * rad for the ball and a power-up (the two coordinate
\* differences are tested first so that the squares stay within TLC's integers).
collects(s, pu) ==
    LET dx == s.ball.x - pu.x
        dy == s.ball.y - pu.y
        rad == R + POWERUP_RADIUS * Unit
    IN  /\ Abs(dx) <= rad
        /\ Abs(dy) <= rad
        /\ dx * dx + dy * dy <= rad * rad

\* The pickup counted for the side that did not hit the ball last.
applyPowerUpCreditsOther(s, type) ==
    LET beneficiary == s.lastHitBy
        s1 == IF beneficiary = "player"
              THEN [s EXCEPT !.powerUpsCollected.ai = @ + 1]
              ELSE [s EXCEPT !.powerUpsCollected.player = @ + 1]
    IN  CASE type = "enlarge" ->
                IF beneficiary = "player"
                THEN [s1 EXCEPT !.player.height = ENLARGED_HEIGHT,
                                !.playerPowerUpTimer = EFFECT_TICKS,
                                !.playerShrinkTimer = 0]
                ELSE [s1 EXCEPT !.ai.height = ENLARGED_HEIGHT,
                                !.aiPowerUpTimer = EFFECT_TICKS,
                                !.aiShrinkTimer = 0]
          [] type = "shrink" ->
                IF beneficiary = "player"
                THEN [s1 EXCEPT !.ai.height = SHRUNK_HEIGHT,
                                !.aiShrinkTimer = EFFECT_TICKS,
                                !.aiPowerUpTimer = 0]
                ELSE [s1 EXCEPT !.player.height = SHRUNK_HEIGHT,
                                !.playerShrinkTimer = EFFECT_TICKS,
                                !.playerPowerUpTimer = 0]
          [] type = "slow" ->
                IF s1.ballSlowFactor = Unit
                THEN [s1 EXCEPT !.ball.vx = Mul(@, SLOW_FACTOR),
                                !.ball.vy = Mul(@, SLOW_FACTOR),
                                !.ballSlowFactor = SLOW_FACTOR,
                                !.ballSlowTimer = EFFECT_TICKS]
                ELSE [s1 EXCEPT !.ballSlowTimer = EFFECT_TICKS]
          [] OTHER ->
                IF s1.ballFastFactor = Unit
                THEN [s1 EXCEPT !.ball.vx = Mul(@, FAST_FACTOR),
                                !.ball.vy = Mul(@, FAST_FACTOR),
                                !.ballFastFactor = FAST_FACTOR,
                                !.ballFastTimer = EFFECT_TICKS]
                ELSE [s1 EXCEPT !.ballFastTimer = EFFECT_TICKS]

\* The ball effects applied to the velocity at every pickup, active or not.
applyPowerUpCompounds(s, type) ==
    LET beneficiary == s.lastHitBy
        s1 == IF beneficiary = "player"
              THEN [s EXCEPT !.powerUpsCollected.player = @ + 1]
              ELSE [s EXCEPT !.powerUpsCollected.ai = @ + 1]
    IN  CASE type = "enlarge" ->
                IF beneficiary = "player"
                THEN [s1 EXCEPT !.player.height = ENLARGED_HEIGHT,
                                !.playerPowerUpTimer = EFFECT_TICKS,
                                !.playerShrinkTimer = 0]
                ELSE [s1 EXCEPT !.ai.height = ENLARGED_HEIGHT,
                                !.aiPowerUpTimer = EFFECT_TICKS,
                                !.aiShrinkTimer = 0]
          [] type = "shrink" ->
                IF beneficiary = "player"
                THEN [s1 EXCEPT !.ai.height = SHRUNK_HEIGHT,
                                !.aiShrinkTimer = EFFECT_TICKS,
                                !.aiPowerUpTimer = 0]
                ELSE [s1 EXCEPT !.player.height = SHRUNK_HEIGHT,
                                !.playerShrinkTimer = EFFECT_TICKS,
                                !.playerPowerUpTimer = 0]
          [] type = "slow" ->
                [s1 EXCEPT !.ball.vx = Mul(@, SLOW_FACTOR),
                           !.ball.vy = Mul(@, SLOW_FACTOR),
                           !.ballSlowFactor = SLOW_FACTOR,
                           !.ballSlowTimer = EFFECT_TICKS]
          [] OTHER ->
                [s1 EXCEPT !.ball.vx = Mul(@, FAST_FACTOR),
                           !.ball.vy = Mul(@, FAST_FACTOR),
                           !.ballFastFactor = FAST_FACTOR,
                           !.ballFastTimer = EFFECT_TICKS]

\* The paddle effects without the clearing of the opposite timer.
applyPowerUpKeepsTimers(s, type) ==
    LET beneficiary == s.lastHitBy
        s1 == IF beneficiary = "player"
              THEN [s EXCEPT !.powerUpsCollected.player = @ + 1]
              ELSE [s EXCEPT !.powerUpsCollected.ai = @ + 1]
    IN  CASE type = "enlarge" ->
                IF beneficiary = "player"
                THEN [s1 EXCEPT !.player.height = ENLARGED_HEIGHT,
                                !.playerPowerUpTimer = EFFECT_TICKS]
                ELSE [s1 EXCEPT !.ai.height = ENLARGED_HEIGHT,
                                !.aiPowerUpTimer = EFFECT_TICKS]
          [] type = "shrink" ->
                IF beneficiary = "player"
                THEN [s1 EXCEPT !.ai.height = SHRUNK_HEIGHT,
                                !.aiShrinkTimer = EFFECT_TICKS]
                ELSE [s1 EXCEPT !.player.height = SHRUNK_HEIGHT,
                                !.playerShrinkTimer = EFFECT_TICKS]
          [] type = "slow" ->
                IF s1.ballSlowFactor = Unit
                THEN [s1 EXCEPT !.ball.vx = Mul(@, SLOW_FACTOR),
                                !.ball.vy = Mul(@, SLOW_FACTOR),
                                !.ballSlowFactor = SLOW_FACTOR,
                                !.ballSlowTimer = EFFECT_TICKS]
                ELSE [s1 EXCEPT !.ballSlowTimer = EFFECT_TICKS]
          [] OTHER ->
                IF s1.ballFastFactor = Unit
                THEN [s1 EXCEPT !.ball.vx = Mul(@, FAST_FACTOR),
                                !.ball.vy = Mul(@, FAST_FACTOR),
                                !.ballFastFactor = FAST_FACTOR,
                                !.ballFastTimer = EFFECT_TICKS]
                ELSE [s1 EXCEPT !.ballFastTimer = EFFECT_TICKS]

\* The effect of collecting a power-up of the given type.
applyPowerUp(s, type) ==
    LET beneficiary == s.lastHitBy
        s1 == IF beneficiary = "player"
              THEN [s EXCEPT !.powerUpsCollected.player = @ + 1]
              ELSE [s EXCEPT !.powerUpsCollected.ai = @ + 1]
    IN  CASE type = "enlarge" ->
                IF beneficiary = "player"
                THEN [s1 EXCEPT !.player.height = ENLARGED_HEIGHT,
                                !.playerPowerUpTimer = EFFECT_TICKS,
                                !.playerShrinkTimer = 0]
                ELSE [s1 EXCEPT !.ai.height = ENLARGED_HEIGHT,
                                !.aiPowerUpTimer = EFFECT_TICKS,
                                !.aiShrinkTimer = 0]
          [] type = "shrink" ->
                IF beneficiary = "player"
                THEN [s1 EXCEPT !.ai.height = SHRUNK_HEIGHT,
                                !.aiShrinkTimer = EFFECT_TICKS,
                                !.aiPowerUpTimer = 0]
                ELSE [s1 EXCEPT !.player.height = SHRUNK_HEIGHT,
                                !.playerShrinkTimer = EFFECT_TICKS,
                                !.playerPowerUpTimer = 0]
          [] type = "slow" ->
                IF s1.ballSlowFactor = Unit
                THEN [s1 EXCEPT !.ball.vx = Mul(@, SLOW_FACTOR),
                                !.ball.vy = Mul(@, SLOW_FACTOR),
                                !.ballSlowFactor = SLOW_FACTOR,
                                !.ballSlowTimer = EFFECT_TICKS]
                ELSE [s1 EXCEPT !.ballSlowTimer = EFFECT_TICKS]
          [] OTHER ->
                IF s1.ballFastFactor = Unit
                THEN [s1 EXCEPT !.ball.vx = Mul(@, FAST_FACTOR),
                                !.ball.vy = Mul(@, FAST_FACTOR),
                                !.ballFastFactor = FAST_FACTOR,
                                !.ballFastTimer = EFFECT_TICKS]
                ELSE [s1 EXCEPT !.ballFastTimer = EFFECT_TICKS]

\* Collision detection with power-ups: the filter over state.powerUps, in
\* order; kept collects the power-ups the ball does not touch.
RECURSIVE pickupFold(_, _, _)
pickupFold(s, pus, kept) ==
    IF pus = <<>>
    THEN [s EXCEPT !.powerUps = kept]
    ELSE IF collects(s, Head(pus))
         THEN pickupFold(applyPowerUp(s, Head(pus).type), Tail(pus), kept)
         ELSE pickupFold(s, Tail(pus), Append(kept, Head(pus)))

pickupStage(s) == pickupFold(s, s.powerUps, <<>>)

\* The paddles after the movement stage (also the new prevPlayerY / prevAiY).
moved(s, ks, my, um, ta, in) == moveStage(adaptStage(s), ks, my, um, ta, in.aiError)

\* The state before the serve-countdown test: movement, dy, and the timers.
timersStage(s, ks, my, um, ta, prevP, prevA, in) ==
    fastStage(slowStage(shrinkStage(enlargeStage(ttlStage(
        spawnStage(powerHitStage(dyStage(moved(s, ks, my, um, ta, in), prevP, prevA)),
                   in.type, in.px, in.py, in.interval))))))

\* The frame outside the serve countdown.
playStage(s, in) == pickupStage(scoreStage(collisionStage(wallStage(s), in.recent)))

\* update() without the test of gameStatus.
updateAnyStatus(s, ks, my, um, ta, prevP, prevA, in) ==
    LET t == timersStage(s, ks, my, um, ta, prevP, prevA, in)
    IN  IF t.serveCountdown > 0 THEN serveStage(t, in.vy) ELSE playStage(t, in)

\* update(): nothing unless the game is playing.
update(s, ks, my, um, ta, prevP, prevA, in) ==
    IF s.gameStatus # "playing"
    THEN s
    ELSE LET t == timersStage(s, ks, my, um, ta, prevP, prevA, in)
         IN  IF t.serveCountdown > 0 THEN serveStage(t, in.vy) ELSE playStage(t, in)

----------------------------------------------------------------------------
(* Bounds of the model and the inputs the environment draws from *)

\* startGame is explored for win scores 1 .. MaxWinScore.
MaxWinScore == 2
\* Spec explores update while rallyCount < MaxRally.
MaxRally == 2
\* SpecRally explores update while rallyCount < MaxHits.
MaxHits == 8
\* SpecPower explores update while rallyCount < MaxPowerHits.
MaxPowerHits == 6
\* SpecFast explores update while rallyCount < MaxFastHits.
MaxFastHits == 24
\* SpecServe explores update while rallyCount < MaxServeHits ...
MaxServeHits == 4
\* ... and, after MaxPoints points, only the serve countdown that follows.
MaxPoints == 1
\* SpecInputs explores the first MaxFrames frames of a match.
MaxFrames == 2
\* A touch event carries 1 .. MaxTouches touches.
MaxTouches == 1

\* The keys update reads (upper and lower case alike) and the shortcut keys
\* of handleKeyDown: p (also space, Escape), r, m.
MoveKeys == {"w", "s", "ArrowUp", "ArrowDown"}
ShortcutKeys == {"p", "r", "m"}

\* (Math.random() - 0.5) * settings.aiError lies in [-aiError/2, aiError/2):
\* draws k stand for k * aiError / 2.
AiError(diff, k) == k * (DIFFICULTY_SETTINGS[diff].aiError \div 2)
\* (Math.random() - 0.5) * 3 lies in [-1.5, 1.5).
LaunchVys == {0, -(8 * Unit) \div 10, (12 * Unit) \div 10}
\* 90 + Math.random() * (CANVAS_WIDTH - 180), 55 + Math.random() * (CANVAS_HEIGHT - 110)
SpawnPlaces == {[x |-> 400 * Unit, y |-> 250 * Unit]}
\* The same, and a place below the centre, on the way of a ball that comes
\* back from the lower half of a shrunk paddle.
PowerPlaces == SpawnPlaces \cup {[x |-> 400 * Unit, y |-> 432 * Unit]}

\* The draws update can read in state s; a draw it cannot read is left at a
\* fixed value.
\*   aiError   (Math.random() - 0.5) * settings.aiError
\*   vy        (Math.random() - 0.5) * 3, the launch's vertical velocity
\*   type, px, py, interval   the spawn's draws
\*   recent    now - lastHitTime < 2000
FrameInputsAt(s, draws, vys, combos, spawnPlaces) ==
    LET playing == s.gameStatus = "playing"
        errs == IF playing /\ s.mode = "single" THEN {AiError(s.difficulty, k) : k \in draws} ELSE {0}
        launch == IF playing /\ s.serveCountdown = 1 THEN vys ELSE {0}
        spawns == playing /\ s.powerUpsEnabled /\ s.serveCountdown <= 0 /\ s.powerUpSpawnTimer - 1 <= 0
        types == IF spawns THEN PowerUpType ELSE {"enlarge"}
        places == IF spawns THEN spawnPlaces ELSE {[x |-> 0, y |-> 0]}
        intervals == IF spawns THEN SpawnIntervals(s.powerUpSpawnRate) ELSE {0}
        recents == IF playing /\ s.serveCountdown <= 0 /\ s.lastHitTime # 0 /\ s.ball.vx < 0
                   THEN combos ELSE {FALSE}
    IN  {[aiError |-> e, vy |-> v, type |-> t, px |-> p.x, py |-> p.y, interval |-> i, recent |-> r] :
            e \in errs, v \in launch, t \in types, p \in places, i \in intervals, r \in recents}

\* The draws with the spawn at one of SpawnPlaces.
FrameInputs(s, draws, vys, combos) == FrameInputsAt(s, draws, vys, combos, SpawnPlaces)

----------------------------------------------------------------------------
(* Actions *)

\* One animation frame: gameLoop calls update().
FrameAt(draws, vys, combos, spawnPlaces) ==
    /\ \E in \in FrameInputsAt(state, draws, vys, combos, spawnPlaces) :
        /\ state' = update(state, keys, mouseY, useMouse, touchActive, prevPlayerY, prevAiY, in)
        /\ IF state.gameStatus = "playing"
           THEN /\ prevPlayerY' = moved(state, keys, mouseY, useMouse, touchActive, in).player.y
                /\ prevAiY' = moved(state, keys, mouseY, useMouse, touchActive, in).ai.y
                /\ useMouse' = IF state.mode = "multi" THEN FALSE ELSE useMouse
           ELSE UNCHANGED <<prevPlayerY, prevAiY, useMouse>>
    /\ UNCHANGED <<keys, mouseY, touchActive, swVars>>

\* The frame with the spawn at one of SpawnPlaces.
Frame(draws, vys, combos) == FrameAt(draws, vys, combos, SpawnPlaces)

\* startGame(diff, winAt, gameMode) as an action.
Start(diffs, winScores, modes) ==
    \E diff \in diffs, winAt \in winScores, gameMode \in modes, direction \in {1, -1} :
        startGame(diff, winAt, gameMode, direction)

\* togglePause() that also starts play from the menu.
togglePauseFromMenu(s) ==
    IF s.gameStatus = "playing"
    THEN [s EXCEPT !.gameStatus = "paused"]
    ELSE [s EXCEPT !.gameStatus = "playing"]

\* togglePause()
togglePause(s) ==
    IF s.gameStatus = "playing"
    THEN [s EXCEPT !.gameStatus = "paused"]
    ELSE IF s.gameStatus = "paused"
         THEN [s EXCEPT !.gameStatus = "playing"]
         ELSE s

\* The pause button.
TogglePause ==
    /\ state' = togglePause(state)
    /\ UNCHANGED <<keys, mouseY, useMouse, touchActive, prevPlayerY, prevAiY, swVars>>

\* returnToMenu()
returnToMenu(s) == [s EXCEPT !.gameStatus = "menu"]

\* The menu button.
ReturnToMenu ==
    /\ state' = returnToMenu(state)
    /\ UNCHANGED <<keys, mouseY, useMouse, touchActive, prevPlayerY, prevAiY, swVars>>

\* A blur that pauses whatever the status.
pauseAlways(s) == [s EXCEPT !.gameStatus = "paused"]

\* pauseIfPlaying(): window blur, or visibilitychange with document.hidden.
\* The auto-pause as a call of togglePause.
pauseAsToggle(s) ==
    IF s.gameStatus = "playing"
    THEN [s EXCEPT !.gameStatus = "paused"]
    ELSE IF s.gameStatus = "paused"
         THEN [s EXCEPT !.gameStatus = "playing"]
         ELSE s

pauseIfPlaying(s) == IF s.gameStatus = "playing" THEN [s EXCEPT !.gameStatus = "paused"] ELSE s

PauseIfPlaying ==
    /\ state' = pauseIfPlaying(state)
    /\ UNCHANGED <<keys, mouseY, useMouse, touchActive, prevPlayerY, prevAiY, swVars>>

\* handleKeyDown(k): the key is held, the mouse is released, and the shortcut
\* keys pause, rematch or return to the menu.  keys keeps the keys update reads.
handleKeyDown(k) ==
    /\ keys' = keys \cup ({k} \cap MoveKeys)
    /\ useMouse' = FALSE
    /\ UNCHANGED <<mouseY, swVars>>
    /\ IF k = "p" /\ state.gameStatus \in {"playing", "paused"}
       THEN /\ state' = togglePause(state)
            /\ UNCHANGED <<touchActive, prevPlayerY, prevAiY>>
       ELSE IF k = "r" /\ state.gameStatus = "gameOver"
       THEN \E direction \in {1, -1} :
                /\ state' = prepareServe(startState(state, state.difficulty, state.winScore, state.mode),
                                         direction)
                /\ prevPlayerY' = CENTRE_Y
                /\ prevAiY' = CENTRE_Y
                /\ touchActive' = FALSE
       ELSE IF k = "m" /\ state.gameStatus \in {"playing", "paused", "gameOver"}
       THEN /\ state' = returnToMenu(state)
            /\ UNCHANGED <<touchActive, prevPlayerY, prevAiY>>
       ELSE UNCHANGED <<state, touchActive, prevPlayerY, prevAiY>>

\* handleKeyUp(k)
handleKeyUp(k) ==
    /\ keys' = keys \ {k}
    /\ UNCHANGED <<state, mouseY, useMouse, touchActive, prevPlayerY, prevAiY, swVars>>

\* handleMouseMove: y is (e.clientY - rect.top) * scaleY.
handleMouseMove(y) ==
    /\ mouseY' = y
    /\ useMouse' = TRUE
    /\ UNCHANGED <<state, keys, touchActive, prevPlayerY, prevAiY, swVars>>

\* handleTouch in multi-player mode: each touch sets the paddle of its half.
RECURSIVE touchPaddles(_, _)
touchPaddles(s, touches) ==
    IF touches = <<>>
    THEN s
    ELSE LET touch == Head(touches)
             s1 == IF touch.x < W \div 2
                   THEN [s EXCEPT !.player.y = clampPaddle(touch.y - s.player.height \div 2, s.player.height)]
                   ELSE [s EXCEPT !.ai.y = clampPaddle(touch.y - s.ai.height \div 2, s.ai.height)]
         IN  touchPaddles(s1, Tail(touches))

\* handleTouch (touchstart, touchmove); touches is e.touches in canvas
\* coordinates.
handleTouch(touches) ==
    IF state.mode = "multi"
    THEN /\ state' = touchPaddles(state, touches)
         /\ touchActive' = TRUE
         /\ UNCHANGED <<keys, mouseY, useMouse, prevPlayerY, prevAiY, swVars>>
    ELSE /\ mouseY' = touches[1].y
         /\ useMouse' = TRUE
         /\ UNCHANGED <<state, keys, touchActive, prevPlayerY, prevAiY, swVars>>

\* handleTouchEnd (touchend, touchcancel): remaining is e.touches.length.
handleTouchEnd(remaining) ==
    /\ touchActive' = IF remaining = 0 THEN FALSE ELSE touchActive
    /\ UNCHANGED <<state, keys, mouseY, useMouse, prevPlayerY, prevAiY, swVars>>

\* The settings toggles of the menu and pause overlays.  Each effect copies
\* the flag into the game state; disabling power-ups clears the court.
SetAdaptiveAI ==
    /\ state.gameStatus \in {"menu", "paused"}
    /\ state' = [state EXCEPT !.adaptiveAI = ~@]
    /\ UNCHANGED <<keys, mouseY, useMouse, touchActive, prevPlayerY, prevAiY, swVars>>

SetPowerUpsEnabled ==
    /\ state.gameStatus \in {"menu", "paused"}
    /\ state' = [state EXCEPT !.powerUpsEnabled = ~@, !.powerUps = IF state.powerUpsEnabled THEN <<>> ELSE @]
    /\ UNCHANGED <<keys, mouseY, useMouse, touchActive, prevPlayerY, prevAiY, swVars>>

\* The rates the toggle is explored with.
SpawnRates == {"normal", "high"}

SetPowerUpSpawnRate ==
    /\ state.gameStatus \in {"menu", "paused"}
    /\ \E r \in SpawnRates : state' = [state EXCEPT !.powerUpSpawnRate = r]
    /\ UNCHANGED <<keys, mouseY, useMouse, touchActive, prevPlayerY, prevAiY, swVars>>

----------------------------------------------------------------------------
(* Spec: the match life cycle, played to the end.  The entry points, the    *)
(* shortcut keys and the frames; no paddle input, the AI's aim without      *)
(* error.                                                                   *)

Update == state.rallyCount < MaxRally /\ Frame({0}, LaunchVys, BOOLEAN)

StartGame == Start({"hard"}, 1..MaxWinScore, GameMode)

Shortcut == \E k \in ShortcutKeys : handleKeyDown(k)

Next ==
    \/ Update
    \/ StartGame
    \/ TogglePause
    \/ ReturnToMenu
    \/ PauseIfPlaying
    \/ Shortcut

Spec == Init /\ [][Next]_vars

----------------------------------------------------------------------------
(* SpecInputs: the first frames of a match under every interleaving of the  *)
(* frames with the entry points, the input events and the settings.         *)

InputKeys == {"s", "p"}
\* Canvas coordinates of the pointer and of the touches.
MouseYs == {400 * Unit}
TouchPoints == {[x |-> 700 * Unit, y |-> 480 * Unit]}

RECURSIVE TouchLists(_)
TouchLists(n) ==
    IF n = 0
    THEN {}
    ELSE {<<t>> : t \in TouchPoints} \cup {Append(l, t) : l \in TouchLists(n - 1), t \in TouchPoints}

UpdateEarly ==
    /\ state.gameStatus = "playing" => state.serveCountdown > SERVE_TICKS - MaxFrames
    /\ Frame({0, -1}, LaunchVys, BOOLEAN)

StartEarly == Start({"medium"}, {1}, GameMode)

KeyDown == \E k \in InputKeys : handleKeyDown(k)

KeyUp == \E k \in InputKeys : handleKeyUp(k)

MouseMove == \E y \in MouseYs : handleMouseMove(y)

Touch == \E touches \in TouchLists(MaxTouches) : handleTouch(touches)

TouchEnd == \E remaining \in 0..1 : handleTouchEnd(remaining)

NextInputs ==
    \/ UpdateEarly
    \/ StartEarly
    \/ TogglePause
    \/ ReturnToMenu
    \/ PauseIfPlaying
    \/ KeyDown
    \/ KeyUp
    \/ MouseMove
    \/ Touch
    \/ TouchEnd
    \/ SetAdaptiveAI
    \/ SetPowerUpsEnabled
    \/ SetPowerUpSpawnRate

SpecInputs == Init /\ [][NextInputs]_vars

----------------------------------------------------------------------------
(* SpecRally: a two-player match without power-ups, served level; the left  *)
(* player touches the court at one of two heights, the right paddle stays.  *)
(* A paddle that jumps more than 4 pixels in the frame of the collision     *)
(* makes a power hit.  Every hit comes 2 s or more after the one before.    *)

DuelTouches == {[x |-> 100 * Unit, y |-> y] : y \in {250 * Unit, 255 * Unit}}

StartDuel ==
    /\ ~state.powerUpsEnabled
    /\ Start({"easy", "impossible"}, {1}, {"multi"})

UpdateDuel == state.rallyCount < MaxHits /\ Frame({0}, {0}, {FALSE})

TouchDuel == \E t \in DuelTouches : handleTouch(<<t>>)

NextRally ==
    \/ SetPowerUpsEnabled
    \/ StartDuel
    \/ UpdateDuel
    \/ TouchDuel

SpecRally == Init /\ [][NextRally]_vars

----------------------------------------------------------------------------
(* SpecPower: a two-player match with power-ups at the high spawn rate,     *)
(* served level, the paddles left alone.  The power-ups spawn at one of    *)
(* PowerPlaces, on the ball's way, so that they are collected and their    *)
(* effects overlap and expire during the rally.                            *)

StartPower ==
    /\ state.powerUpSpawnRate = "high"
    /\ Start({"easy"}, {1}, {"multi"})

UpdatePower == state.rallyCount < MaxPowerHits /\ FrameAt({0}, {0}, {FALSE}, PowerPlaces)

NextPower ==
    \/ SetPowerUpSpawnRate
    \/ StartPower
    \/ UpdatePower

SpecPower == Init /\ [][NextPower]_vars

----------------------------------------------------------------------------
(* SpecAI: a single-player match without power-ups, served level.  The AI's *)
(* aim errs in the last MaxFrames frames of a serve countdown, where it may *)
(* draw the lowest error, and is exact in every other frame.                *)

StartAI ==
    /\ ~state.powerUpsEnabled
    /\ Start({"hard"}, {1}, {"single"})

UpdateAI ==
    /\ state.rallyCount < MaxRally
    /\ Frame(IF 0 < state.serveCountdown /\ state.serveCountdown <= MaxFrames THEN {0, -1} ELSE {0},
             {0}, {FALSE})

NextAI ==
    \/ SetPowerUpsEnabled
    \/ StartAI
    \/ UpdateAI

SpecAI == Init /\ [][NextAI]_vars

----------------------------------------------------------------------------
(* SpecServe: a two-player match to two points at the high spawn rate,      *)
(* with power-ups enabled or disabled, served level, followed through       *)
(* MaxPoints points and the serve countdown after the last of them.         *)

StartServe ==
    /\ state.powerUpSpawnRate = "high"
    /\ Start({"easy"}, {2}, {"multi"})

UpdateServe ==
    /\ state.rallyCount < MaxServeHits
    /\ (state.player.score + state.ai.score < MaxPoints \/ state.serveCountdown > 0)
    /\ Frame({0}, {0}, {FALSE})

NextServe ==
    \/ SetPowerUpSpawnRate
    \/ SetPowerUpsEnabled
    \/ StartServe
    \/ UpdateServe

SpecServe == Init /\ [][NextServe]_vars

\* ---------------------------------------------------------------------
\* The match of SpecServe with the left player's finger near the bottom of
\* the court: a touch in the left half of the canvas at y = 480 puts the
\* left paddle on the lower clamp.
EdgeTouches == {[x |-> 100 * Unit, y |-> 480 * Unit]}

TouchEdge == \E t \in EdgeTouches : handleTouch(<<t>>)

NextEdge ==
    \/ SetPowerUpSpawnRate
    \/ SetPowerUpsEnabled
    \/ StartServe
    \/ UpdateServe
    \/ TouchEdge

SpecEdge == Init /\ [][NextEdge]_vars

\* ---------------------------------------------------------------------
\* A two-player match at the difficulty with the largest ball speed
\* multiplier, power-ups spawning at the high rate on the ball's way, and
\* a rally long enough for the speed to reach its cap.
StartFast ==
    /\ state.powerUpSpawnRate = "high"
    /\ Start({"impossible"}, {1}, {"multi"})

UpdateFast == state.rallyCount < MaxFastHits /\ Frame({0}, {0}, {FALSE})

NextFast ==
    \/ SetPowerUpSpawnRate
    \/ StartFast
    \/ UpdateFast

SpecFast == Init /\ [][NextFast]_vars

\* ---------------------------------------------------------------------
\* The service worker beside the page: its install, the network coming and
\* going, fetch events and the settling of the cache writes they start.

\* install and activate: addAll stores the whole list or, when a request
\* of it fails, nothing (the rejection is swallowed); the worker then
\* activates and claims the page.
Install ==
    /\ swPhase = "installing"
    /\ cache' = IF online THEN cache \cup Precache ELSE cache
    /\ swPhase' = "activated"
    /\ UNCHANGED <<state, keys, mouseY, useMouse, touchActive, prevPlayerY, prevAiY,
                   online, puts, served, last>>

\* fetch() starts to reject.
NetworkFails ==
    /\ online
    /\ online' = FALSE
    /\ UNCHANGED <<state, keys, mouseY, useMouse, touchActive, prevPlayerY, prevAiY,
                   swPhase, cache, puts, served, last>>

\* fetch() resolves again.
NetworkRecovers ==
    /\ ~online
    /\ online' = TRUE
    /\ UNCHANGED <<state, keys, mouseY, useMouse, touchActive, prevPlayerY, prevAiY,
                   swPhase, cache, puts, served, last>>

\* A fetch event of the page the worker controls.
FetchEvent ==
    /\ swPhase = "activated"
    /\ \E req \in Requests :
        LET outcome == respond(req, cache, online)
        IN  /\ last' = [req |-> req, offline |-> ~online,
                        repeat |-> req.url \in served, outcome |-> outcome]
            /\ puts' = IF outcome = "network" THEN puts \cup {req.url} ELSE puts
            /\ served' = IF outcome = "network" /\ req.mode = "navigate"
                         THEN served \cup {req.url} ELSE served
    /\ UNCHANGED <<state, keys, mouseY, useMouse, touchActive, prevPlayerY, prevAiY,
                   swPhase, cache, online>>

\* cache.put(req, copy) resolves: the response is stored.
PutSettles ==
    /\ \E url \in puts :
        /\ cache' = cache \cup {url}
        /\ puts' = puts \ {url}
    /\ UNCHANGED <<state, keys, mouseY, useMouse, touchActive, prevPlayerY, prevAiY,
                   swPhase, online, served, last>>

\* cache.put(req, copy) rejects; the rejection is swallowed.
PutRejects ==
    /\ \E url \in puts : puts' = puts \ {url}
    /\ UNCHANGED <<state, keys, mouseY, useMouse, touchActive, prevPlayerY, prevAiY,
                   swPhase, cache, online, served, last>>

NextWorker ==
    \/ Install
    \/ NetworkFails
    \/ NetworkRecovers
    \/ FetchEvent
    \/ PutSettles
    \/ PutRejects

SpecWorker == Init /\ [][NextWorker]_vars

----------------------------------------------------------------------------
(* Properties.  Timers count frames: serveCountdown = 3 is SERVE_TICKS.     *)

NoInput ==
    [aiError |-> 0, vy |-> 0, type |-> "enlarge", px |-> 0, py |-> 0, interval |-> 0, recent |-> FALSE]

Scores(s) == <<s.player.score, s.ai.score>>

\* A side has reached the win threshold.
Over(s) == s.player.score >= s.winScore \/ s.ai.score >= s.winScore

\* The step is a call of update.
IsUpdate ==
    \E in \in FrameInputs(state, {0, -1}, LaunchVys, BOOLEAN) :
        state' = update(state, keys, mouseY, useMouse, touchActive, prevPlayerY, prevAiY, in)

\* The step is a call of startGame (the start button, or a rematch); the
\* arguments and the drawn direction are those the new state records.
IsStart ==
    /\ state'.serveCountdown = SERVE_TICKS
    /\ state' = prepareServe(startState(state, state'.difficulty, state'.winScore, state'.mode),
                             state'.serveDirection)

\* A serve sequence has just started.
Served(s) ==
    /\ s.gameStatus = "playing"
    /\ s.ball.x = W \div 2 /\ s.ball.y = H \div 2
    /\ s.ball.vx = 0 /\ s.ball.vy = 0
    /\ s.serveCountdown = SERVE_TICKS

\* The status of s changed to status, nothing else.
OnlyStatus(s, t, status) == t = [s EXCEPT !.gameStatus = status]

\* C1: a call of update while the status is menu, paused or gameOver changes
\* nothing: neither the game state nor the input state.
C1_UpdateOutsidePlay ==
    [][(state.gameStatus # "playing" /\ IsUpdate) => UNCHANGED vars]_vars

\* C1: the match is over, the ball beyond the left edge, and frames go on.
C1_Witness ==
    /\ state.gameStatus = "gameOver"
    /\ state.ball.x < -(SCORE_MARGIN * Unit)
    /\ state.rallyCount < MaxRally

\* C2: a step that brings a score to winScore ends in gameOver, and once a
\* side has reached winScore the scores change only by a call of startGame.
C2_GameOverKeepsScores ==
    [][/\ (Scores(state') # Scores(state) /\ Over(state')) => state'.gameStatus = "gameOver"
       /\ (Over(state) /\ Scores(state') # Scores(state)) => IsStart]_vars

\* C2: a match to MaxWinScore was won and the menu entered after it.
C2_Witness ==
    /\ state.gameStatus = "menu"
    /\ state.winScore = MaxWinScore
    /\ Over(state)

\* The ball after the movement, wall and paddle stages of this frame.
Flown ==
    collisionStage(wallStage(timersStage(state, keys, mouseY, useMouse, touchActive,
                                         prevPlayerY, prevAiY, NoInput)), FALSE).ball

\* C3: in a frame of play outside the serve countdown that takes the ball
\* beyond the left edge, the right side gains one point and the left none,
\* and the match ends (score >= winScore) or a serve starts with the ball at
\* the centre, at rest, and the countdown at 3 s; mirrored for the right edge.
C3_ScoringTick ==
    [][(/\ state.gameStatus = "playing" /\ state.serveCountdown = 0
        /\ (Flown.x < -(SCORE_MARGIN * Unit) \/ Flown.x > W + SCORE_MARGIN * Unit)
        /\ IsUpdate) =>
         /\ Flown.x < -(SCORE_MARGIN * Unit) =>
              /\ state'.ai.score = state.ai.score + 1
              /\ state'.player.score = state.player.score
              /\ IF state'.ai.score >= state'.winScore
                 THEN state'.gameStatus = "gameOver"
                 ELSE Served(state')
         /\ Flown.x > W + SCORE_MARGIN * Unit =>
              /\ state'.player.score = state.player.score + 1
              /\ state'.ai.score = state.ai.score
              /\ IF state'.player.score >= state'.winScore
                 THEN state'.gameStatus = "gameOver"
                 ELSE Served(state')]_vars

\* C3: each side has scored once and the serve after the second point starts.
C3_Witness ==
    /\ state.player.score = 1
    /\ state.ai.score = 1
    /\ Served(state)

\* The state the claim lists after start.
Fresh(s) ==
    /\ s.gameStatus = "playing"
    /\ s.player.score = 0 /\ s.ai.score = 0
    /\ s.rallyCount = 0 /\ s.maxRally = 0 /\ s.combo = 0
    /\ s.winner = ""
    /\ s.matchEndMs = 0
    /\ s.powerUpsCollected = [player |-> 0, ai |-> 0]
    /\ s.powerUps = <<>>
    /\ s.playerPowerUpTimer = 0 /\ s.aiPowerUpTimer = 0
    /\ s.playerShrinkTimer = 0 /\ s.aiShrinkTimer = 0
    /\ s.ballSlowTimer = 0 /\ s.ballFastTimer = 0
    /\ s.ballSlowFactor = Unit /\ s.ballFastFactor = Unit
    /\ s.player.height = BASE_HEIGHT /\ s.ai.height = BASE_HEIGHT
    /\ s.player.y = CENTRE_Y /\ s.ai.y = CENTRE_Y
    /\ ~s.isPowerHit
    /\ s.ball.x = W \div 2 /\ s.ball.y = H \div 2
    /\ s.ball.vx = 0 /\ s.ball.vy = 0
    /\ s.serveCountdown = SERVE_TICKS

\* C4: a call of startGame, whatever the status and the state before it,
\* leaves status playing, scores and counters 0, no winner, no power-up and
\* no effect, the paddles at base height and centred, and the serve begun.
\* (Written as "the step ends in such a state or is no call of startGame".)
C4_StartResets ==
    [][Fresh(state') \/ ~IsStart]_vars

\* C4: a paused match with a point scored, a rally played and the ball in
\* flight, from which start is called.
C4_Witness ==
    /\ state.gameStatus = "paused"
    /\ state.player.score + state.ai.score > 0
    /\ state.maxRally > 0
    /\ state.ball.vx # 0

\* C5: togglePause changes the status only, playing to paused and paused to
\* playing; in menu and gameOver it changes nothing.
C5_TogglePauseOnlyStatus ==
    [][TogglePause =>
         /\ UNCHANGED <<keys, mouseY, useMouse, touchActive, prevPlayerY, prevAiY>>
         /\ CASE state.gameStatus = "playing" -> OnlyStatus(state, state', "paused")
              [] state.gameStatus = "paused"  -> OnlyStatus(state, state', "playing")
              [] OTHER                        -> state' = state]_vars

\* C5: a match paused during a rally.
C5_Witness ==
    /\ state.gameStatus = "paused"
    /\ state.rallyCount > 0
    /\ state.ball.vx # 0

\* C6: while the status stays paused no score, ball position, paddle
\* position or timer changes, whatever the step.
C6_PausedFreezes ==
    [][(state.gameStatus = "paused" /\ state'.gameStatus = "paused") =>
         /\ Scores(state') = Scores(state)
         /\ state'.ball.x = state.ball.x /\ state'.ball.y = state.ball.y
         /\ state'.player.y = state.player.y /\ state'.ai.y = state.ai.y
         /\ state'.serveCountdown = state.serveCountdown
         /\ state'.powerHitTimer = state.powerHitTimer
         /\ state'.powerUpSpawnTimer = state.powerUpSpawnTimer
         /\ state'.playerPowerUpTimer = state.playerPowerUpTimer
         /\ state'.aiPowerUpTimer = state.aiPowerUpTimer
         /\ state'.playerShrinkTimer = state.playerShrinkTimer
         /\ state'.aiShrinkTimer = state.aiShrinkTimer
         /\ state'.ballSlowTimer = state.ballSlowTimer
         /\ state'.ballFastTimer = state.ballFastTimer]_vars

\* C7: the status changes only by startGame (to playing), togglePause or a
\* blur (playing to paused, paused to playing, nothing else changed),
\* returnToMenu (to menu, nothing else changed) and a scoring frame (playing
\* to gameOver).
C7_StatusChanges ==
    [][state'.gameStatus # state.gameStatus =>
         CASE state'.gameStatus = "playing" ->
                  \/ IsStart
                  \/ state.gameStatus = "paused" /\ OnlyStatus(state, state', "playing")
           [] state'.gameStatus = "paused" ->
                  state.gameStatus = "playing" /\ OnlyStatus(state, state', "paused")
           [] state'.gameStatus = "menu" ->
                  OnlyStatus(state, state', "menu")
           [] OTHER ->
                  /\ state.gameStatus = "playing"
                  /\ IsUpdate
                  /\ Scores(state') # Scores(state)]_vars

\* C7: a match played to its end and left for the menu.
C7_Witness ==
    /\ state.gameStatus = "menu"
    /\ state.winner # ""

\* The step registers a paddle collision.
IsHit == state'.rallyCount = state.rallyCount + 1

\* C8: across every paddle collision ball.speed does not decrease.
C8_SpeedNonDecreasing ==
    [][IsHit => state'.ball.speed >= state.ball.speed]_vars

\* cap * ballSpeedMul of the state's difficulty.
SpeedCap(s, cap) == cap * DIFFICULTY_SETTINGS[s.difficulty].ballSpeedMul

\* C9: ball.speed lies between 5 * ballSpeedMul and 16 * ballSpeedMul, and a
\* speed above 14 * ballSpeedMul is either the speed of the state before or
\* the outcome of a power hit.
C9_SpeedBounds ==
    /\ [](/\ BaseSpeed(state.difficulty) <= state.ball.speed
          /\ state.ball.speed <= SpeedCap(state, POWER_CAP))
    /\ [][state'.ball.speed > SpeedCap(state', HIT_CAP) =>
            \/ state'.ball.speed = state.ball.speed /\ state'.difficulty = state.difficulty
            \/ IsHit /\ state'.isPowerHit /\ state'.powerHitTimer = POWER_HIT_TICKS]_vars

\* C9: the ball flies faster than 14 * ballSpeedMul.
C9_Witness == state.ball.speed > SpeedCap(state, HIT_CAP)

\* C10: at every registered collision hitPos lies in [-1, 1].
C10_HitPosInRange ==
    [][IsHit => Abs(hitPos(state', state'.lastHitBy)) <= Unit]_vars

\* The ball, after this frame's movement and wall stages, overlaps the paddle
\* it flies toward: the frame registers a paddle collision.
Struck ==
    LET t == wallStage(timersStage(state, keys, mouseY, useMouse, touchActive,
                                   prevPlayerY, prevAiY, NoInput))
    IN  overlaps(t, IF t.ball.vx < 0 THEN "player" ELSE "ai")

\* The frame is one of play outside the serve countdown.
InPlay == state.gameStatus = "playing" /\ state.serveCountdown = 0

\* The step ends in the state that begins a match: the serve countdown just
\* set, no score, no rally on record.  (Of the steps that enter a serve
\* sequence only startGame ends there; a point leaves a score.)
Restarted ==
    /\ Served(state')
    /\ Scores(state') = <<0, 0>>
    /\ state'.maxRally = 0

C12_MaxRallyMonotone ==
    /\ state.maxRally >= state.rallyCount
    /\ [][/\ state'.maxRally >= state'.rallyCount
          /\ state'.maxRally >= state.maxRally \/ Restarted
          /\ \/ state'.maxRally = state.maxRally
             \/ Restarted
             \/ IsHit /\ state'.maxRally = state'.rallyCount]_vars

\* C12: a rally was played and lost, and the ball of the next rally is in
\* flight: maxRally has outlived the point, the serve and the launch.
C12_Witness ==
    /\ state.gameStatus = "playing"
    /\ state.serveCountdown = 0
    /\ state.ball.vx # 0
    /\ state.rallyCount = 0
    /\ state.maxRally > 0
    /\ state.player.score + state.ai.score > 0

\* C13: for each paddle the enlarge timer and the shrink timer are never both
\* above 0.
C13_EnlargeShrinkExclusive ==
    /\ ~(state.playerPowerUpTimer > 0 /\ state.playerShrinkTimer > 0)
    /\ ~(state.aiPowerUpTimer > 0 /\ state.aiShrinkTimer > 0)

\* C13: the right paddle is enlarged in this frame by the right side's
\* first pickup, during the fourth flight of the rally; the left side's one
\* pickup before it has left no effect on the left paddle or on the ball: it
\* shrank the right paddle, and the enlargement has cleared that timer.
C13_Witness ==
    /\ state.ai.height = ENLARGED_HEIGHT
    /\ state.aiPowerUpTimer = EFFECT_TICKS
    /\ state.aiShrinkTimer = 0
    /\ state.powerUpsCollected = [player |-> 1, ai |-> 1]
    /\ state.rallyCount = 3
    /\ state.player.height = BASE_HEIGHT
    /\ state.playerPowerUpTimer = 0
    /\ state.ballSlowFactor = Unit /\ state.ballFastFactor = Unit

\* The square of the ball's velocity, and the velocity its speed and the two
\* factors give; the two agree when they differ by less than one part in a
\* hundred (the model's sine and cosine carry three decimals).
SpeedSq(s) == s.ball.vx * s.ball.vx + s.ball.vy * s.ball.vy
Nominal(s) == Mul(s.ball.speed, Mul(s.ballSlowFactor, s.ballFastFactor))
AtNominal(s) ==
    /\ (Nominal(s) - Nominal(s) \div 100) * (Nominal(s) - Nominal(s) \div 100) <= SpeedSq(s)
    /\ SpeedSq(s) <= (Nominal(s) + Nominal(s) \div 100) * (Nominal(s) + Nominal(s) \div 100)

\* s and t differ in nothing but the ball's velocity and the named fields.
ExpiryOnly(s, t, vx, vy, slowF, slowT, fastF, fastT) ==
    t = [s EXCEPT !.ball.vx = vx, !.ball.vy = vy,
                  !.ballSlowFactor = slowF, !.ballSlowTimer = slowT,
                  !.ballFastFactor = fastF, !.ballFastTimer = fastT]

\* C14: in a frame of play in which the slow timer expires, the expiry
\* divides both velocity components by the recorded slow factor (the result
\* times the factor is the old velocity, to one unit), sets the slow factor
\* to 1 and the slow timer to 0 and changes nothing else, the fast factor and
\* its timer included; the velocity is then the one the ball's speed and the
\* fast factor alone give.  The same for the fast timer, with the slow
\* factor and timer left alone.
C14_FactorExpiry ==
    (state.gameStatus = "playing" /\ state.serveCountdown = 0) =>
        /\ state.ballSlowTimer = 1 =>
              LET t == slowStage(state)
              IN  /\ Abs(Mul(t.ball.vx, state.ballSlowFactor) - state.ball.vx) <= 1
                  /\ Abs(Mul(t.ball.vy, state.ballSlowFactor) - state.ball.vy) <= 1
                  /\ ExpiryOnly(state, t, t.ball.vx, t.ball.vy, Unit, 0,
                                state.ballFastFactor, state.ballFastTimer)
                  /\ AtNominal(t)
        /\ state.ballFastTimer = 1 =>
              LET t == fastStage(state)
              IN  /\ Abs(Mul(t.ball.vx, state.ballFastFactor) - state.ball.vx) <= 1
                  /\ Abs(Mul(t.ball.vy, state.ballFastFactor) - state.ball.vy) <= 1
                  /\ ExpiryOnly(state, t, t.ball.vx, t.ball.vy,
                                state.ballSlowFactor, state.ballSlowTimer, Unit, 0)
                  /\ AtNominal(t)

\* C14: the slow timer expires in the next frame of play while the fast
\* effect is on: the ball flies at 0.6 * 1.6 of its speed.
C14_Witness ==
    /\ state.gameStatus = "playing" /\ state.serveCountdown = 0
    /\ state.ballSlowTimer = 1
    /\ state.ballSlowFactor = SLOW_FACTOR
    /\ state.ballFastTimer > 1
    /\ state.ballFastFactor = FAST_FACTOR
    /\ state.ball.vx # 0

\* C15: right after every paddle collision, power hits included, the ball's
\* velocity has the magnitude ball.speed * ballSlowFactor * ballFastFactor,
\* ball.speed being the value the collision has stored.
C15_VelocityAtSpeed ==
    [][IsHit => AtNominal(state')]_vars

\* The centre of the AI paddle.
AiCentre(s) == s.ai.y + s.ai.height \div 2

\* The step is a call of update in which the AI's aim has no error.
IsExactUpdate ==
    \E in \in FrameInputs(state, {0}, LaunchVys, BOOLEAN) :
        state' = update(state, keys, mouseY, useMouse, touchActive, prevPlayerY, prevAiY, in)

\* C16: in single mode, in a frame of play with the ball flying level toward
\* the AI (vx > 0, vy = 0) and no aim error, the AI's target is the ball's y,
\* and the frame does not take the AI paddle's centre farther from it (an
\* increase of the distance below 0.01 px is not counted).
C16_AiApproaches ==
    [][(/\ state.gameStatus = "playing" /\ state.mode = "single"
        /\ state.ball.vx > 0 /\ state.ball.vy = 0
        /\ IsExactUpdate) =>
         /\ aiTarget(state, 0) = state.ball.y
         /\ Abs(state.ball.y - AiCentre(state')) <=
                Abs(state.ball.y - AiCentre(state)) + Unit \div 100]_vars

\* The state before the pickup stage of the frame with the draws in.
PrePickup(in) ==
    scoreStage(collisionStage(wallStage(timersStage(state, keys, mouseY, useMouse, touchActive,
                                                    prevPlayerY, prevAiY, in)), in.recent))

\* The power-ups the ball touches in s.
Picked(s) == {i \in 1..Len(s.powerUps) : collects(s, s.powerUps[i])}

\* Height, enlarge timer and shrink timer of a paddle.
Effects(s, who) ==
    IF who = "player"
    THEN <<s.player.height, s.playerPowerUpTimer, s.playerShrinkTimer>>
    ELSE <<s.ai.height, s.aiPowerUpTimer, s.aiShrinkTimer>>

Opponent(who) == IF who = "player" THEN "ai" ELSE "player"

\* C17: a frame of play in which the ball picks up one power-up, the last
\* hit being by side `who`: a shrink leaves the opponent's paddle 54 high
\* with its shrink timer at 6 s and its enlarge timer at 0, and who's own
\* height and timers as they were before the pickup; an enlarge leaves who's
\* paddle 144 high with its enlarge timer at 6 s and its shrink timer at 0,
\* and the opponent's as they were.
C17_PaddlePickups ==
    [][(state'.powerUpsCollected # state.powerUpsCollected /\ state.gameStatus = "playing") =>
         \A in \in FrameInputsAt(state, {0}, {0}, {FALSE}, PowerPlaces) :
             LET t == PrePickup(in)
                 who == t.lastHitBy
                 type == t.powerUps[CHOOSE i \in Picked(t) : TRUE].type
             IN  (/\ Cardinality(Picked(t)) = 1
                  /\ state' = update(state, keys, mouseY, useMouse, touchActive,
                                     prevPlayerY, prevAiY, in)) =>
                     CASE type = "shrink" ->
                              /\ Effects(state', Opponent(who)) = <<54 * Unit, 0, EFFECT_TICKS>>
                              /\ Effects(state', who) = Effects(t, who)
                       [] type = "enlarge" ->
                              /\ Effects(state', who) = <<144 * Unit, EFFECT_TICKS, 0>>
                              /\ Effects(state', Opponent(who)) = Effects(t, Opponent(who))
                       [] OTHER -> TRUE]_vars

\* C17: the left side, its own paddle enlarged, has just picked up a shrink:
\* the right paddle is 54 high with its shrink timer at 6 s, the left paddle
\* still enlarged with its timer running.
C17_Witness ==
    /\ state.lastHitBy = "player"
    /\ state.ai.height = SHRUNK_HEIGHT
    /\ state.aiShrinkTimer = EFFECT_TICKS
    /\ state.aiPowerUpTimer = 0
    /\ state.player.height = ENLARGED_HEIGHT
    /\ state.playerPowerUpTimer > 0

\* The ball rests at the centre of the court.
AtCentre(s) ==
    /\ s.ball.x = (CANVAS_WIDTH * Unit) \div 2 /\ s.ball.y = (CANVAS_HEIGHT * Unit) \div 2
    /\ s.ball.vx = 0 /\ s.ball.vy = 0

\* C18: in every state with serveCountdown > 0 (the initial state and the
\* state after every step) the ball is at the court centre with velocity
\* (0, 0); and a frame of play during the countdown leaves the ball's
\* position, the scores, the rally counter and the record of the last hit as
\* they were.
C18_CountdownHoldsBall ==
    /\ state.serveCountdown > 0 => AtCentre(state)
    /\ [][/\ state'.serveCountdown > 0 => AtCentre(state')
          /\ (/\ state.gameStatus = "playing" /\ state.serveCountdown > 0
              /\ state'.serveCountdown < state.serveCountdown
              /\ IsUpdate) =>
                /\ state'.ball.x = state.ball.x /\ state'.ball.y = state.ball.y
                /\ Scores(state') = Scores(state)
                /\ state'.rallyCount = state.rallyCount
                /\ state'.lastHitBy = state.lastHitBy
                /\ state'.lastHitTime = state.lastHitTime]_vars

\* C18: the countdown of the serve after a point is half run down.
C18_Witness ==
    /\ state.gameStatus = "playing"
    /\ state.serveCountdown = SERVE_TICKS \div 2
    /\ state.player.score + state.ai.score > 0
    /\ state.lastHitTime # 0

\* C19: a frame of play during the serve countdown leaves the positions of
\* both paddles unchanged, whatever the keys held, the mouse, and the AI's
\* target.
C19_CountdownHoldsPaddles ==
    [][(/\ state.gameStatus = "playing" /\ state.serveCountdown > 0
        /\ state'.serveCountdown < state.serveCountdown
        /\ IsUpdate) =>
         /\ state'.player.y = state.player.y
         /\ state'.ai.y = state.ai.y]_vars

\* The number of the frame of play that the next update is, counted from the
\* serve entry: prepareServe sets the countdown to SERVE_TICKS and every
\* frame of play takes one from it.
ServeFrame(s) == SERVE_TICKS - s.serveCountdown + 1

\* C20: a frame of play during the serve countdown advances the countdown by
\* one frame; the 180th frame after the serve entry (3 s at 60 frames per
\* second) ends the countdown and launches the ball with vx = 5 *
\* ballSpeedMul * serveDirection; no earlier frame launches it.
C20_LaunchAfter180 ==
    [][(/\ state.gameStatus = "playing" /\ state.serveCountdown > 0
        /\ state'.serveCountdown < state.serveCountdown
        /\ IsUpdate) =>
         /\ state'.serveCountdown = state.serveCountdown - 1
         /\ IF ServeFrame(state) = 3 * TicksPerSecond
            THEN /\ state'.serveCountdown = 0
                 /\ state'.ball.vx = BALL_INITIAL_SPEED * DIFFICULTY_SETTINGS[state.difficulty].ballSpeedMul
                                         * state.serveDirection
            ELSE /\ ServeFrame(state) < 3 * TicksPerSecond
                 /\ state'.ball.vx = 0]_vars

\* ---------------------------------------------------------------------
\* C21: after a point that does not end the match, serveDirection is -1
\* when the right side scored and +1 when the left side scored; nothing
\* but a point or a new match changes serveDirection, and the frame that
\* ends the countdown launches the ball with vx = base speed times
\* serveDirection.
C21_ServeTowardLoser ==
    [][ /\ (state'.ai.score = state.ai.score + 1 /\ state'.gameStatus = "playing")
            => (state'.serveDirection = -1 /\ state'.serveCountdown = SERVE_TICKS)
        /\ (state'.player.score = state.player.score + 1 /\ state'.gameStatus = "playing")
            => (state'.serveDirection = 1 /\ state'.serveCountdown = SERVE_TICKS)
        /\ (state'.serveDirection # state.serveDirection)
            => (\/ state'.ai.score = state.ai.score + 1
                \/ state'.player.score = state.player.score + 1
                \/ Restarted)
        /\ (state.serveCountdown = 1 /\ state'.serveCountdown = 0)
            => (/\ state'.serveDirection = state.serveDirection
                /\ state'.ball.vx = BaseSpeed(state.difficulty) * state.serveDirection
                /\ state'.ball.x = W \div 2) ]_vars

\* The ball in flight toward the left paddle on the serve that follows a
\* point of the right side, before any hit.
C21_Witness ==
    /\ state.gameStatus = "playing"
    /\ state.serveCountdown = 0
    /\ Scores(state) = <<0, 1>>
    /\ state.serveDirection = -1
    /\ state.rallyCount = 0
    /\ state.ball.vx = -BaseSpeed(state.difficulty)
    /\ state.ball.x < W \div 2

\* ---------------------------------------------------------------------
\* C22: in every reachable state with serveCountdown > 0 no power-up
\* stands on the court, the six effect timers are 0, both ball speed
\* factors are 1 and both paddles have the base height.
C22_CountdownIsClean ==
    state.serveCountdown > 0 =>
        /\ state.powerUps = <<>>
        /\ state.playerPowerUpTimer = 0
        /\ state.aiPowerUpTimer = 0
        /\ state.playerShrinkTimer = 0
        /\ state.aiShrinkTimer = 0
        /\ state.ballSlowTimer = 0
        /\ state.ballFastTimer = 0
        /\ state.ballSlowFactor = Unit
        /\ state.ballFastFactor = Unit
        /\ state.player.height = BASE_HEIGHT
        /\ state.ai.height = BASE_HEIGHT

\* The countdown that follows a point of a rally in which a power-up was
\* collected.
C22_Witness ==
    /\ state.gameStatus = "playing"
    /\ state.serveCountdown > 0
    /\ state.player.score + state.ai.score = 1
    /\ state.powerUpsCollected.player + state.powerUpsCollected.ai > 0

\* ---------------------------------------------------------------------
\* C23: while the status is gameOver, exactly one score has reached
\* winScore, winner names that side (Player or AI in single mode, P1 or P2
\* in multi mode) and matchEndMs is set; while the status is playing or
\* paused, winner is empty and matchEndMs is 0.
C23_WinnerNamed ==
    /\ state.gameStatus = "gameOver" =>
            /\ state.matchEndMs # 0
            /\ \/ /\ state.player.score >= state.winScore
                  /\ state.ai.score < state.winScore
                  /\ state.winner = IF state.mode = "multi" THEN "P1" ELSE "Player"
               \/ /\ state.ai.score >= state.winScore
                  /\ state.player.score < state.winScore
                  /\ state.winner = IF state.mode = "multi" THEN "P2" ELSE "AI"
    /\ state.gameStatus \in {"playing", "paused"} =>
            /\ state.winner = ""
            /\ state.matchEndMs = 0

\* A two-player match to two points won by the left side.
C23_Witness ==
    /\ state.gameStatus = "gameOver"
    /\ state.winner = "P1"
    /\ state.player.score = 2
    /\ state.winScore = 2

\* ---------------------------------------------------------------------
\* C24: a hit of the left paddle increments combo or sets it to 1 and
\* takes the time of the hit as the new reference of the 2000 ms window; a
\* hit of the right paddle changes neither combo nor that reference
\* (lastHitTime), so that the window is measured from the previous hit of
\* the left paddle.
C24_ComboWindow ==
    [][IsHit =>
         IF state'.lastHitBy = "player"
         THEN /\ state'.combo \in {state.combo + 1, 1}
              /\ state'.lastHitTime = DateNow
         ELSE /\ state'.combo = state.combo
              /\ state'.lastHitTime = state.lastHitTime]_vars

\* The types of the power-ups the ball touches in s.
PickedTypes(s) == {s.powerUps[i].type : i \in Picked(s)}

\* Each ball factor is at its effect's value while the effect's timer runs
\* and at 1 otherwise.
FactorsFollowTimers(s) ==
    /\ s.ballSlowFactor = (IF s.ballSlowTimer > 0 THEN SLOW_FACTOR ELSE Unit)
    /\ s.ballFastFactor = (IF s.ballFastTimer > 0 THEN FAST_FACTOR ELSE Unit)
    /\ s.ballSlowTimer >= 0 /\ s.ballFastTimer >= 0

\* ---------------------------------------------------------------------
\* C25: initially and after every step ballSlowFactor is 0.6 exactly while
\* ballSlowTimer > 0 and 1 otherwise, and ballFastFactor is 1.6 exactly
\* while ballFastTimer > 0 and 1 otherwise; and a frame that picks up slow (fast) power-ups and none of
\* the other kind leaves the timer at 6 s and the factor at 0.6 (1.6), with
\* the velocity multiplied once if the effect was not active before the
\* pickup and not at all if it was.
C25_BallFactors ==
    /\ FactorsFollowTimers(state)
    /\ [][FactorsFollowTimers(state')]_vars
    /\ [][(state'.powerUpsCollected # state.powerUpsCollected /\ state.gameStatus = "playing") =>
            \A in \in FrameInputsAt(state, {0}, {0}, {FALSE}, PowerPlaces) :
                LET t == PrePickup(in)
                    types == PickedTypes(t)
                IN  (state' = update(state, keys, mouseY, useMouse, touchActive,
                                     prevPlayerY, prevAiY, in)) =>
                        /\ ("slow" \in types /\ "fast" \notin types) =>
                               /\ state'.ballSlowTimer = EFFECT_TICKS
                               /\ state'.ballSlowFactor = SLOW_FACTOR
                               /\ state'.ball.vx = (IF t.ballSlowTimer > 0 THEN t.ball.vx
                                                    ELSE Mul(t.ball.vx, SLOW_FACTOR))
                               /\ state'.ball.vy = (IF t.ballSlowTimer > 0 THEN t.ball.vy
                                                    ELSE Mul(t.ball.vy, SLOW_FACTOR))
                        /\ ("fast" \in types /\ "slow" \notin types) =>
                               /\ state'.ballFastTimer = EFFECT_TICKS
                               /\ state'.ballFastFactor = FAST_FACTOR
                               /\ state'.ball.vx = (IF t.ballFastTimer > 0 THEN t.ball.vx
                                                    ELSE Mul(t.ball.vx, FAST_FACTOR))
                               /\ state'.ball.vy = (IF t.ballFastTimer > 0 THEN t.ball.vy
                                                    ELSE Mul(t.ball.vy, FAST_FACTOR))]_vars

\* The slow timer back at 6 s by a pickup after two earlier pickups of the
\* rally, the ball flying at 0.6 of its speed.
C25_Witness ==
    /\ state.ballSlowTimer = EFFECT_TICKS
    /\ state.ballSlowFactor = SLOW_FACTOR
    /\ state.ballFastTimer = 0
    /\ state.powerUpsCollected.player + state.powerUpsCollected.ai >= 2
    /\ Abs(state.ball.vx) = Mul(state.ball.speed, SLOW_FACTOR)
    /\ state.ball.vy = 0

\* The step is a frame of play: of the steps taken while playing only a
\* frame and startGame change the countdown or the ball, and a frame does not
\* end in the state that begins a match.
Ticked ==
    /\ state.gameStatus = "playing"
    /\ (state'.serveCountdown # state.serveCountdown \/ state'.ball # state.ball)
    /\ ~Restarted

\* ---------------------------------------------------------------------
\* C26: after a frame of play each paddle's dy is its y after the frame
\* minus its y after the previous frame of play (its y at the start of the
\* match before the first), which the frame records for the next one; no
\* other step but the start of a match changes that record; and a hit is a
\* power hit exactly when the hitting paddle's dy exceeds 4 in magnitude.
C26_DyIsDisplacement ==
    [][ /\ Ticked =>
               /\ state'.player.dy = state'.player.y - prevPlayerY
               /\ state'.ai.dy = state'.ai.y - prevAiY
               /\ prevPlayerY' = state'.player.y
               /\ prevAiY' = state'.ai.y
        /\ (prevPlayerY' # prevPlayerY \/ prevAiY' # prevAiY) =>
               \/ Ticked
               \/ Restarted /\ prevPlayerY' = state'.player.y /\ prevAiY' = state'.ai.y
        /\ IsHit =>
               (state'.powerHitTimer = POWER_HIT_TICKS /\ state'.isPowerHit)
                   <=> (Abs(Paddle(state', state'.lastHitBy).dy) > POWER_DY * Unit) ]_vars

\* The frame of a power hit by the left paddle, which a touch moved 5 px
\* since the frame before.
C26_Witness ==
    /\ state.lastHitBy = "player"
    /\ state.rallyCount > 0
    /\ state.player.dy = 5 * Unit
    /\ state.player.y = prevPlayerY
    /\ state.powerHitTimer = POWER_HIT_TICKS

\* The frame's spawn fires: play outside the countdown, power-ups enabled,
\* the spawn timer at its last frame.
SpawnDue(s) ==
    /\ s.gameStatus = "playing"
    /\ s.powerUpsEnabled
    /\ s.serveCountdown <= 0
    /\ s.powerUpSpawnTimer - 1 <= 0

\* The power-ups of pus one frame older, without those whose time is up.
Aged(pus) ==
    SelectSeq([i \in 1..Len(pus) |-> [pus[i] EXCEPT !.ttl = @ - 1]], LAMBDA pu : pu.ttl > 0)

Added ==
    /\ state'.powerUps # state.powerUps
    /\ \E i \in 1..Len(state'.powerUps) : state'.powerUps[i].ttl = TTL_TICKS - 1

\* The step is a frame in which the spawn block runs: play outside the serve
\* countdown with power-ups enabled.
SpawnTick ==
    /\ state.powerUpsEnabled
    /\ state.serveCountdown <= 0
    /\ Ticked

\* ---------------------------------------------------------------------
\* C28: a power-up is added only by a frame with the status playing,
\* serveCountdown <= 0 and power-ups enabled, whose spawn timer runs out;
\* such a frame counts the spawn timer down by one frame or, spawning,
\* resets it to a drawn interval; in every other step the spawn timer is
\* not counted down (it changes only when a serve begins, which sets it
\* to 4 s) and nothing is added.
C28_SpawnOnlyInPlay ==
    [][ /\ Added => (SpawnTick /\ SpawnDue(state))
        /\ (SpawnTick /\ state'.serveCountdown = 0) =>
               IF SpawnDue(state)
               THEN state'.powerUpSpawnTimer \in SpawnIntervals(state.powerUpSpawnRate)
               ELSE state'.powerUpSpawnTimer = state.powerUpSpawnTimer - 1
        /\ ~SpawnTick =>
               /\ ~Added
               /\ \/ state'.powerUpSpawnTimer = state.powerUpSpawnTimer
                  \/ /\ state'.serveCountdown = SERVE_TICKS
                     /\ state'.powerUpSpawnTimer = SERVE_SPAWN_TICKS ]_vars

\* A frame of play has just spawned a power-up.
C28_Witness ==
    /\ state.gameStatus = "playing"
    /\ state.powerUpsEnabled
    /\ state.serveCountdown = 0
    /\ Len(state.powerUps) = 1
    /\ state.powerUps[1].ttl = TTL_TICKS - 1
    /\ state.powerUpSpawnTimer \in SpawnIntervals(state.powerUpSpawnRate)

\* The two pickup counters, left and right.
Counters(s) == <<s.powerUpsCollected.player, s.powerUpsCollected.ai>>

\* The step starts an effect: one of the six effect timers goes up.
EffectSet ==
    \/ state'.playerPowerUpTimer > state.playerPowerUpTimer
    \/ state'.aiPowerUpTimer > state.aiPowerUpTimer
    \/ state'.playerShrinkTimer > state.playerShrinkTimer
    \/ state'.aiShrinkTimer > state.aiShrinkTimer
    \/ state'.ballSlowTimer > state.ballSlowTimer
    \/ state'.ballFastTimer > state.ballFastTimer

\* The step is a frame of play in which the ball overlaps n >= 1 power-ups:
\* they leave the list, none that overlaps the ball stays, and the counter
\* of the side that hit the ball last goes up by n, the other staying.
PickupFrame ==
    /\ Ticked
    /\ \A in \in FrameInputsAt(state, {0}, {0}, {FALSE}, PowerPlaces) :
          (state' = update(state, keys, mouseY, useMouse, touchActive, prevPlayerY, prevAiY, in)) =>
              LET t == PrePickup(in)
                  n == Cardinality(Picked(t))
              IN  /\ n >= 1
                  /\ Counters(state') = IF t.lastHitBy = "player"
                                        THEN <<Counters(state)[1] + n, Counters(state)[2]>>
                                        ELSE <<Counters(state)[1], Counters(state)[2] + n>>
                  /\ Len(state'.powerUps) = Len(t.powerUps) - n
                  /\ \A i \in 1..Len(state'.powerUps) : ~collects(state', state'.powerUps[i])

\* ---------------------------------------------------------------------
\* C29 as stated: a pickup counter changes only in a frame in which the ball
\* overlaps a power-up, which is removed, the counter of the side recorded
\* in lastHitBy going up by 1 for each; and no step that leaves the counters
\* as they are starts an effect.
C29_CountersOnlyByPickup ==
    [][ /\ Counters(state') # Counters(state) => PickupFrame
        /\ Counters(state') = Counters(state) => ~EffectSet ]_vars

\* C29 amended: the same, with the start of a match as the second way a
\* counter changes: startGame sets both to 0.
C29_CountersByPickupOrStart ==
    [][ /\ Counters(state') # Counters(state) =>
               \/ PickupFrame
               \/ Restarted /\ Counters(state') = <<0, 0>>
        /\ Counters(state') = Counters(state) => ~EffectSet ]_vars

\* The right side, the last to hit, has just collected its first power-up
\* while another one stands on the court.
C29_Witness ==
    /\ state.lastHitBy = "ai"
    /\ Counters(state) = <<0, 1>>
    /\ state.powerUps # <<>>
    /\ \/ state.aiPowerUpTimer = EFFECT_TICKS
       \/ state.playerShrinkTimer = EFFECT_TICKS
       \/ state.ballSlowTimer = EFFECT_TICKS
       \/ state.ballFastTimer = EFFECT_TICKS

\* The number of frames of play since the last power hit, while its timer
\* runs: the hit sets the timer to POWER_HIT_TICKS and every frame of play
\* takes one from it.
PowerHitAge(s) == POWER_HIT_TICKS - s.powerHitTimer

\* ---------------------------------------------------------------------
\* C30: the power-hit flag is true exactly when the power-hit timer is
\* above 0, and it is false once 30 frames of play (0.5 s at 60 frames per
\* second) have passed since the last power hit: while the flag is true,
\* fewer than 30 frames have passed.
C30_PowerHitDecays ==
    /\ state.isPowerHit <=> state.powerHitTimer > 0
    /\ state.isPowerHit => PowerHitAge(state) < TicksPerSecond \div 2

\* let predictedY = ball.y + ball.vy * timeToReach, before the loop.
predictedY(s) ==
    s.ball.y + Rnd(s.ball.vy * Rnd((AI_X - s.ball.x) * 100, s.ball.vx), 100)

\* The number of iterations the bounce prediction loop makes from p.
RECURSIVE bounceCount(_)
bounceCount(p) ==
    IF p < 0 \/ p > H
    THEN LET p1 == IF p < 0 THEN -p ELSE p
             p2 == IF p1 > H THEN 2 * H - p1 ELSE p1
         IN  1 + bounceCount(p2)
    ELSE 0

\* ---------------------------------------------------------------------
\* C31: in single mode, in every reachable state with ball.vx > 0, the
\* bounce prediction loop ends after at most |predictedY| / court height + 1
\* iterations and leaves a predicted y within [0, court height].
C31_PredictionInRange ==
    (state.mode = "single" /\ state.ball.vx > 0) =>
        /\ bounceCount(predictedY(state)) <= Abs(predictedY(state)) \div H + 1
        /\ bouncePrediction(predictedY(state)) \in 0..H
        /\ aiTarget(state, 0) = bouncePrediction(predictedY(state))

\* A single-mode flight toward the AI whose straight-line prediction lies
\* outside the court, so that the loop runs.
C31_Witness ==
    /\ state.mode = "single"
    /\ state.gameStatus = "playing"
    /\ state.ball.vx > 0
    /\ bounceCount(predictedY(state)) >= 1

\* A paddle lies fully inside the court.
Inside(p) == 0 <= p.y /\ p.y + p.height <= H

\* ---------------------------------------------------------------------
\* C32: at the end of every frame of play each paddle lies fully inside
\* the court, 0 <= y and y + height <= court height, the frames in which
\* a paddle's height grows included.
C32_PaddlesInside ==
    [][Ticked => (Inside(state'.player) /\ Inside(state'.ai))]_vars

\* The scores lie within the match's winning score, below it while the
\* match runs and with exactly one of them on it when the match is over.
ScoresWithin(s) ==
    /\ s.player.score \in 0..s.winScore
    /\ s.ai.score \in 0..s.winScore
    /\ (s.gameStatus \in {"playing", "paused"} =>
            (s.player.score < s.winScore /\ s.ai.score < s.winScore))
    /\ (s.gameStatus = "gameOver" =>
            ((s.player.score = s.winScore) # (s.ai.score = s.winScore)))

\* ---------------------------------------------------------------------
\* C33: with a winning score of at least 1, in every reachable state both
\* scores are within 0..winScore; while the status is playing or paused
\* both are below winScore; when it is gameOver exactly one of them equals
\* winScore; and every frame of play that changes the scores raises
\* exactly one of them by exactly 1.
C33_ScoresBounded ==
    /\ (state.winScore >= 1 => ScoresWithin(state))
    /\ [][state'.winScore >= 1 => ScoresWithin(state')]_vars
    /\ [][(Scores(state') # Scores(state) /\ ~Restarted) =>
            /\ Ticked
            /\ \/ Scores(state') = <<state.player.score + 1, state.ai.score>>
               \/ Scores(state') = <<state.player.score, state.ai.score + 1>>]_vars

\* A match to 2 points that ended 2 : 1.
C33_Witness ==
    /\ state.gameStatus = "gameOver"
    /\ state.winScore = 2
    /\ Scores(state) \in {<<2, 1>>, <<1, 2>>}

\* The side the ball flies away from.
FliesFrom(s) == IF s.ball.vx > 0 THEN "player" ELSE "ai"

\* ---------------------------------------------------------------------
\* C34: a frame registers at most one paddle collision, and within a rally
\* two consecutive collisions are never by the same paddle: after a hit
\* the horizontal velocity points away from the paddle that hit and keeps
\* that sign, through pickups and timer expiries, until the other paddle
\* hits or a point is scored.
C34_HitsAlternate ==
    /\ [][state'.rallyCount > state.rallyCount =>
            /\ state'.rallyCount = state.rallyCount + 1
            /\ state'.ball.vx # 0
            /\ FliesFrom(state') = state'.lastHitBy
            /\ FliesFrom(state) # state'.lastHitBy
            /\ (state.rallyCount > 0 => state'.lastHitBy # state.lastHitBy)]_vars
    /\ [][(state'.rallyCount > 0 /\ state'.rallyCount = state.rallyCount) =>
            /\ state'.lastHitBy = state.lastHitBy
            /\ state'.ball.vx # 0
            /\ FliesFrom(state') = FliesFrom(state)]_vars

\* The third hit of a rally, the ball flying from the left paddle under a
\* fast or slow effect.
C34_Witness ==
    /\ state.gameStatus = "playing"
    /\ state.rallyCount >= 3
    /\ state.lastHitBy = "player"
    /\ state.ball.vx > 0
    /\ (state.ballFastTimer > 0 \/ state.ballSlowTimer > 0)

\* The state of a two-player match at the collision test of the frame that
\* starts in the current state: paddles moved, heights and ball velocity
\* after the timers, ball moved and reflected at the walls.
atTest ==
    wallStage(fastStage(slowStage(shrinkStage(enlargeStage(
        moved(state, keys, mouseY, useMouse, touchActive, [aiError |-> 0]))))))

\* The paddle the ball of s moves toward.
Facing(s) == IF s.ball.vx < 0 THEN "player" ELSE "ai"

\* The ball lies wholly on the court side of the paddle's front face.
InFront(s, who) ==
    IF who = "player"
    THEN s.ball.x - R >= PLAYER_X + PW
    ELSE s.ball.x + R <= AI_X

\* The ball's vertical extent overlaps the paddle's.
Level(s, who) ==
    /\ s.ball.y + R > Paddle(s, who).y
    /\ s.ball.y - R < Paddle(s, who).y + Paddle(s, who).height

HeightFor(enlargeTimer, shrinkTimer) ==
    IF enlargeTimer > 0 THEN ENLARGED_HEIGHT
    ELSE IF shrinkTimer > 0 THEN SHRUNK_HEIGHT
    ELSE BASE_HEIGHT

\* ---------------------------------------------------------------------
\* C36: each paddle's height is 144 exactly when its enlarge timer is
\* above 0, 54 exactly when its shrink timer is above 0 and 90 otherwise,
\* the two timers never running together; so the height lies within
\* [22, court height - 20] and is never zero.
C36_HeightsFollowTimers ==
    /\ state.player.height = HeightFor(state.playerPowerUpTimer, state.playerShrinkTimer)
    /\ state.ai.height = HeightFor(state.aiPowerUpTimer, state.aiShrinkTimer)
    /\ ~(state.playerPowerUpTimer > 0 /\ state.playerShrinkTimer > 0)
    /\ ~(state.aiPowerUpTimer > 0 /\ state.aiShrinkTimer > 0)
    /\ state.playerPowerUpTimer >= 0 /\ state.playerShrinkTimer >= 0
    /\ state.aiPowerUpTimer >= 0 /\ state.aiShrinkTimer >= 0
    /\ {ENLARGED_HEIGHT, SHRUNK_HEIGHT, BASE_HEIGHT}
           = {144 * Unit, 54 * Unit, 90 * Unit}
    /\ state.player.height \in (MIN_HEIGHT_FLOOR * Unit)..(H - MAX_HEIGHT_INSET * Unit)
    /\ state.ai.height \in (MIN_HEIGHT_FLOOR * Unit)..(H - MAX_HEIGHT_INSET * Unit)

\* One paddle enlarged and the other shrunk at the same time.
C36_Witness ==
    /\ state.gameStatus = "playing"
    /\ state.playerPowerUpTimer > 0 /\ state.player.height = ENLARGED_HEIGHT
    /\ state.aiShrinkTimer > 0 /\ state.ai.height = SHRUNK_HEIGHT

\* The auto-pause pauses a match in play and does nothing in any other
\* status; togglePause does the same except that it resumes a paused match.
BlurPausesOnly(s) ==
    /\ (s.gameStatus = "playing" =>
            pauseIfPlaying(s) = [s EXCEPT !.gameStatus = "paused"])
    /\ (s.gameStatus # "playing" => pauseIfPlaying(s) = s)
    /\ (s.gameStatus # "paused" =>
            pauseIfPlaying(s).gameStatus = togglePause(s).gameStatus)
    /\ (s.gameStatus = "paused" =>
            /\ pauseIfPlaying(s).gameStatus = "paused"
            /\ togglePause(s).gameStatus = "playing")

\* ---------------------------------------------------------------------
\* C37 as stated: in every status a window-blur or document-hidden event
\* has the effect on the status that togglePause has, and in play it sets
\* paused and changes nothing else.
C37_BlurAsToggle ==
    /\ pauseIfPlaying(state).gameStatus = togglePause(state).gameStatus
    /\ (state.gameStatus = "playing" =>
            pauseIfPlaying(state) = [state EXCEPT !.gameStatus = "paused"])

\* C37 amended: the event sets paused when the status is playing, changing
\* nothing else, and changes nothing in any other status; that is
\* togglePause's effect in menu, playing and gameOver but not in paused,
\* where togglePause resumes play and the event leaves the match paused.
C37_BlurPausesOnly ==
    /\ BlurPausesOnly(state)
    /\ [][BlurPausesOnly(state')]_vars
    /\ [][(state.gameStatus = "playing" /\ state'.gameStatus = "paused") =>
            /\ state' = [state EXCEPT !.gameStatus = "paused"]
            /\ UNCHANGED <<keys, mouseY, useMouse, touchActive, prevPlayerY, prevAiY>>]_vars

\* A match paused in the middle of a rally.
C37_Witness ==
    /\ state.gameStatus = "paused"
    /\ state.serveCountdown = 0
    /\ state.rallyCount > 0

\* ---------------------------------------------------------------------
\* C38: a start leaves the power-up spawn timer at 5 seconds, and it is
\* still 5 seconds when the serve countdown of the first rally ends, so
\* that the first power-up appears after 5 seconds of live play.
C38_FirstSpawnAfterFive ==
    /\ [][Restarted => state'.powerUpSpawnTimer = FIRST_SPAWN_TICKS]_vars
    /\ [][(Ticked /\ state.serveCountdown = 1 /\ Scores(state) = <<0, 0>>
              /\ state.maxRally = 0) =>
            state'.powerUpSpawnTimer = FIRST_SPAWN_TICKS]_vars

\* The last fetch event was a same-origin GET navigation.
Navigated == last.outcome # "none" /\ intercepts(last.req) /\ last.req.mode = "navigate"

\* ---------------------------------------------------------------------
\* C39: once the worker has answered a same-origin GET navigation from the
\* network, a later navigation for the same request while the network
\* fails is answered from the cache, by the stored response or by the
\* cached shell, whether the cache write of the first answer has settled
\* or not; and a request that is not GET or not same-origin is never
\* intercepted.
C39_OfflineAfterFirstLoad ==
    /\ (Navigated /\ last.offline /\ last.repeat) =>
            last.outcome \in {"stored", "shell"}
    /\ (last.outcome # "none" /\ ~intercepts(last.req)) =>
            last.outcome = "passthrough"

====
